---- MODULE Spec2Model ----
(***************************************************************************)
(* Model of the LLM-orchestration core of the philosophical-concepts       *)
(* service: ClaudeService.sendRequest (cache / model call / interaction    *)
(* log) and SynthesisService (compatibility analysis and synthesis with    *)
(* persistence).                                                           *)
(*                                                                         *)
(* Conventions.  A JavaScript string that matters as text (a model         *)
(* response) is a sequence of lines, so '' is << >>.  A nullable value is  *)
(* a sequence of length 0 (null) or 1.  Temperatures are in tenths.        *)
(***************************************************************************)
EXTENDS Integers, Sequences, FiniteSets, TLC

VARIABLES pc, req, loc, syn, cache, log, db, produced, now, started, prev, tpl, pure

vars == <<pc, req, loc, syn, cache, log, db, produced, now, started, prev, tpl, pure>>

(***************************************************************************)
(* Bounds of the model.                                                    *)
(***************************************************************************)
MaxInvocations == 2
MaxTicks == 2
MaxTemplateOps == 3

Procs == {1, 2}

(***************************************************************************)
(* Program constants.                                                      *)
(***************************************************************************)
DefaultTtlSeconds == 3600
DefaultMaxTokens == 4000
DefaultTemperature == 7
TickSeconds == 1800

Null == << >>
Some(x) == <<x>>

(***************************************************************************)
(* Response texts, line by line.  The Russian markers of the source are    *)
(* written in Latin transliteration.                                       *)
(***************************************************************************)
Line(k, name, arrow, tgt, body) ==
  [k |-> k, name |-> name, arrow |-> arrow, tgt |-> tgt, body |-> body]

Title(n) == Line("title", n, "", "", "")
H2(n) == Line("h2", n, "", "", "")
H3(n) == Line("h3", n, "", "", "")
Text(b) == Line("text", "", "", "", b)
Bullet(s, a, t, ty) == Line("bullet", s, a, t, ty)

EmptyText == << >>

PlainText == << Text("no markers") >>

\* "# Sintezirovannaya kontseptsiya: Monism" with a description, two categories
\* and one connection between them
FullText ==
  << Title("Monism"), H2("Opisanie"), Text("one substance"),
     H2("Kategorii"), H3("Unity"), Text("def1"), H3("Multiplicity"), Text("def2"),
     H2("Svyazi"), Bullet("Unity", "->", "Multiplicity", "causal") >>

\* a connection whose target names no category of the draft
UnresolvedText ==
  << H2("Kategorii"), H3("Unity"), Text("def1"),
     H2("Svyazi"), Bullet("Unity", "<->", "Ghost", "dialectical") >>

CategoriesOnlyText ==
  << Title("Monism"), H2("Kategorii"), H3("Unity"), Text("def1") >>

Response(t, i, o) == [content |-> t, input_tokens |-> i, output_tokens |-> o]

\* what the external model may answer to a prompt of the given template
ApiResponses(templateName) ==
  IF templateName = "concept_synthesis"
  THEN { Response(PlainText, 1, 2), Response(CategoriesOnlyText, 2, 2),
         Response(FullText, 2, 3), Response(UnresolvedText, 3, 3) }
  ELSE { Response(EmptyText, 0, 0), Response(PlainText, 1, 2) }

ApiFailures == {"transport", "timeout", "status"}

(***************************************************************************)
(* Requests of sendRequest.                                                *)
(***************************************************************************)
Request(c, p, l, uc) ==
  [userId |-> c.userId, conceptId |-> c.conceptId, interactionType |-> c.interactionType,
   prompt |-> p, maxTokens |-> l.maxTokens, temperature |-> l.temperature, useCaching |-> uc]

Caller1 == [userId |-> "u1", conceptId |-> Some("c1"), interactionType |-> "graph_validation"]
Caller2 == [userId |-> "u2", conceptId |-> Null, interactionType |-> "thesis_generation"]
Prompt1 == [tpl |-> "graph_validation", data |-> <<"g1">>]
Defaults == [maxTokens |-> DefaultMaxTokens, temperature |-> DefaultTemperature]

\* the calls a caller of sendRequest may make
Requests ==
  { Request(Caller1, Prompt1, Defaults, TRUE),
    Request(Caller2, Prompt1, Defaults, TRUE),
    Request(Caller1, Prompt1, [Defaults EXCEPT !.maxTokens = 5000], TRUE),
    Request(Caller1, Prompt1, [Defaults EXCEPT !.temperature = 8], TRUE),
    Request(Caller2, [Prompt1 EXCEPT !.data = <<"g2">>], Defaults, TRUE),
    Request(Caller1, Prompt1, Defaults, FALSE) }

NoRequest == Request([userId |-> "", conceptId |-> Null, interactionType |-> ""],
                     [tpl |-> "", data |-> << >>],
                     [maxTokens |-> 0, temperature |-> 0], FALSE)

(***************************************************************************)
(* ClaudeService helpers.                                                  *)
(***************************************************************************)
generatePromptHash(prompt) == <<"sha256", prompt>>

CacheKey(promptHash) == <<"claude:", promptHash>>

\* faulty variant: the entry is written before the response text is in the result
JsonStringifyPartial(result) == <<"json", EmptyText, result.tokensUsed>>

JsonStringify(result) == <<"json", result.response, result.tokensUsed>>

Garbage == <<"garbage", EmptyText, 0>>

JsonParses(s) == s[1] = "json"

JsonParse(s) == [response |-> s[2], tokensUsed |-> s[3]]

NoResult == [response |-> EmptyText, tokensUsed |-> -1]

\* faulty variant: the input tokens are left out of tokensUsed
ResultOfOutputOnly(resp) ==
  [response |-> resp.content, tokensUsed |-> resp.output_tokens]

ResultOf(resp) ==
  [response |-> resp.content, tokensUsed |-> resp.input_tokens + resp.output_tokens]

\* redisClient.get: the stored string while the entry lives, else null
RedisGet(key) ==
  IF key \in DOMAIN cache /\ now < cache[key].exp THEN Some(cache[key].val) ELSE Null

\* faulty variant: the expiry is taken in milliseconds ('PX' for 'EX')
RedisSetMillis(key, value, ttlSeconds) ==
  [k \in DOMAIN cache \cup {key} |->
     IF k = key THEN [val |-> value, exp |-> now + (ttlSeconds \div 1000)] ELSE cache[k]]

\* redisClient.set(key, value, 'EX', ttlSeconds)
RedisSet(key, value, ttlSeconds) ==
  [k \in DOMAIN cache \cup {key} |->
     IF k = key THEN [val |-> value, exp |-> now + ttlSeconds] ELSE cache[k]]

\* x || null for a string held as a sequence of lines
TextOrNull(t) == IF t = EmptyText THEN Null ELSE Some(t)

\* x || null for a number
NumberOrNull(n) == IF n = 0 THEN Null ELSE Some(n)

\* x || null for a nullable identifier
IdOrNull(i) == IF i = Null \/ i = Some("") THEN Null ELSE i

\* the row DatabaseService.logClaudeInteraction inserts
InteractionRow(r, result) ==
  [user_id |-> r.userId,
   concept_id |-> IdOrNull(r.conceptId),
   interaction_type |-> r.interactionType,
   prompt |-> r.prompt,
   response |-> TextOrNull(result.response),
   tokens_used |-> NumberOrNull(result.tokensUsed)]

(***************************************************************************)
(* Per-invocation locals.                                                  *)
(***************************************************************************)
FreshLoc(op, inv) ==
  [op |-> op, inv |-> inv, hit |-> FALSE, result |-> NoResult,
   nCalls |-> 0, nCacheWrites |-> 0, nLogs |-> 0,
   readRaised |-> FALSE, writeRaised |-> FALSE, logRaised |-> FALSE,
   entryExp |-> -1, failStage |-> "none",
   nCacheReads |-> 0, nPrepares |-> 0, template |-> Null]

\* what is remembered of the previous call of a sequential caller
PrevOf(r, l, ok) ==
  [prompt |-> r.prompt, maxTokens |-> r.maxTokens, temperature |-> r.temperature,
   useCaching |-> r.useCaching, ok |-> ok, hit |-> l.hit, result |-> l.result,
   nCacheWrites |-> l.nCacheWrites, nLogs |-> l.nLogs, entryExp |-> l.entryExp]

NoPrev == PrevOf(NoRequest, FreshLoc("", 0), FALSE)

\* where the caller of sendRequest goes on when it returns
ContOk(op) ==
  CASE op = "synthesize" -> "syn_parse"
    [] op = "analyze" -> "ana_parse"
    [] op = "validate" -> "val_parse"
    [] OTHER -> "done"


(***************************************************************************)
(* ClaudeService.synthesizeConcepts: extraction of the draft from the      *)
(* response text and its materialisation as a partial graph.               *)
(***************************************************************************)
\* a line that contains "##": a second- or third-level heading
IsHeading(l) == l.k \in {"h2", "h3"}

\* response.match(/## <name>\s+([\s\S]*?)(?=##|$)/i): the lines after the first
\* heading <name> that is followed by white space, up to the next "##"
SectionMatch(text, name) ==
  LET starts == {i \in 1..Len(text) : IsHeading(text[i]) /\ text[i].name = name
                                       /\ i < Len(text)}
  IN IF starts = {} THEN Null
     ELSE LET i == CHOOSE x \in starts : \A y \in starts : x <= y
              ends == {j \in (i+1)..Len(text) : IsHeading(text[j])}
              j == IF ends = {} THEN Len(text) + 1
                   ELSE CHOOSE x \in ends : \A y \in ends : x <= y
          IN Some(SubSeq(text, i + 1, j - 1))

\* response.match(/# Sintezirovannaya kontseptsiya: (.+?)(?=\n|$)/)
TitleMatch(text) ==
  LET ts == {i \in 1..Len(text) : text[i].k = "title"}
  IN IF ts = {} THEN Null
     ELSE Some(text[CHOOSE x \in ts : \A y \in ts : x <= y].name)

\* `Sintez: ${concepts.map(c => c.name).join(' + ')}`
FallbackName(ids) == <<"Sintez", ids>>

NewConceptName(text, ids) ==
  IF TitleMatch(text) # Null THEN <<TitleMatch(text)[1], << >> >> ELSE FallbackName(ids)

\* the loop over categoryRegex: one category per "### name" followed by text
RECURSIVE CategoriesFrom(_, _)
CategoriesFrom(body, i) ==
  IF i > Len(body) THEN << >>
  ELSE IF body[i].k = "h3" /\ i < Len(body) /\ body[i + 1].k = "text"
       THEN << [name |-> body[i].name, definition |-> body[i + 1].body,
                source |-> IF i + 2 <= Len(body) /\ body[i + 2].k = "origin"
                           THEN body[i + 2].body ELSE ""] >>
            \o CategoriesFrom(body, i + 2)
       ELSE CategoriesFrom(body, i + 1)

ExtractCategories(text) ==
  IF SectionMatch(text, "Kategorii") = Null THEN << >>
  ELSE CategoriesFrom(SectionMatch(text, "Kategorii")[1], 1)

\* the loop over connectionRegex: one connection per bullet "- S arrow T (type)";
\* the direction is 'directed' for "->", 'bidirectional' for "<->", else 'directed'
RECURSIVE ConnectionsFrom(_, _)
ConnectionsFrom(body, i) ==
  IF i > Len(body) THEN << >>
  ELSE IF body[i].k = "bullet"
       THEN << [source_category |-> body[i].name, target_category |-> body[i].tgt,
                connection_type |-> body[i].body, direction |-> IF body[i].arrow = "->" THEN "directed"
                              ELSE IF body[i].arrow = "<->" THEN "bidirectional"
                              ELSE "directed",
                source |-> IF i + 1 <= Len(body) /\ body[i + 1].k = "origin"
                           THEN body[i + 1].body ELSE ""] >>
            \o ConnectionsFrom(body, i + 1)
       ELSE ConnectionsFrom(body, i + 1)

ExtractConnections(text) ==
  IF SectionMatch(text, "Svyazi") = Null THEN << >>
  ELSE ConnectionsFrom(SectionMatch(text, "Svyazi")[1], 1)

\* `new_category_${idx}`
TempCategoryId(idx) == <<"new_category", idx>>

TempCategories(newCategories) ==
  [i \in 1..Len(newCategories) |->
     [category_id |-> TempCategoryId(i - 1), name |-> newCategories[i].name,
      definition |-> newCategories[i].definition, source |-> newCategories[i].source]]

\* What the callback of newConnections.map reads as partialGraph.categories.
\* The callback runs inside the initialiser of `const partialGraph`, before the
\* binding holds a value: every build raises on the read (a ReferenceError for a
\* block-scoped binding, a TypeError on `undefined` for a hoisted one).
PartialGraphCategories(categories) == Null

\* categories.find(c => c.name === name)?.category_id || '', the empty
\* identifier being <<"", 0>>
FindCategoryId(categories, name) ==
  LET hits == {i \in 1..Len(categories) : categories[i].name = name}
  IN IF hits = {} THEN <<"", 0>>
     ELSE categories[CHOOSE x \in hits : \A y \in hits : x <= y].category_id

\* the partial graph, or the exception raised while it is built
MaterializeGraph(newCategories, newConnections) ==
  LET cats == TempCategories(newCategories)
      seen == PartialGraphCategories(cats)
  IN IF Len(newConnections) > 0 /\ seen = Null
     THEN [ok |-> FALSE, categories |-> << >>, connections |-> << >>]
     ELSE [ok |-> TRUE, categories |-> cats,
           connections |->
             [i \in 1..Len(newConnections) |->
                [source_category_id |-> FindCategoryId(seen[1], newConnections[i].source_category),
                 target_category_id |-> FindCategoryId(seen[1], newConnections[i].target_category),
                 connection_type |-> newConnections[i].connection_type,
                 direction |-> newConnections[i].direction]]]

\* the SynthesisResult of ClaudeService.synthesizeConcepts for a response text
ParseSynthesis(text, ids) ==
  LET g == MaterializeGraph(ExtractCategories(text), ExtractConnections(text))
  IN [ok |-> g.ok, name |-> NewConceptName(text, ids),
      categories |-> g.categories, connections |-> g.connections]

(***************************************************************************)
(* SynthesisService: inputs, locals and the stored rows.                   *)
(***************************************************************************)
\* the concepts that exist before any synthesis
SourceConcepts == {"c1", "c2"}

ConceptIdLists == { << >>, <<"c1">>, <<"c1", "c2">>, <<"c1", "cX">> }

\* faulty variant: one concept is enough
AnalyzeTooFewOffByOne(ids) == Len(ids) < 1

\* conceptIds.length < 2 in analyzeSynthesisCompatibility
AnalyzeTooFew(ids) == Len(ids) < 2

\* parameters.concept_ids.length < 2 in synthesizeConcepts
SynthesizeTooFew(ids) == Len(ids) < 2

FreshSyn ==
  [ids |-> << >>, reads |-> 0, name |-> FallbackName(<< >>),
   categories |-> << >>, connections |-> << >>,
   concept_id |-> 0, mapping |-> {}, ci |-> 1, ki |-> 1]

\* a stored row; the columns a table does not have are 0
Row(id, concept, name, src, tgt, by) ==
  [id |-> id, concept_id |-> concept, name |-> name,
   source_category_id |-> src, target_category_id |-> tgt, by |-> by]

EmptyDb ==
  [concepts |-> {}, categories |-> {}, connections |-> {}, metas |-> {}, nextId |-> 1]

\* the rows an invocation has inserted
RowsBy(inv) ==
  {r \in db.concepts \cup db.categories \cup db.connections \cup db.metas : r.by = inv}

SynthesisRequest(ids) ==
  Request([userId |-> "u1", conceptId |-> Null, interactionType |-> "concept_synthesis"],
          [tpl |-> "concept_synthesis", data |-> ids],
          [maxTokens |-> 8000, temperature |-> 8], TRUE)

CompatibilityRequest(ids) ==
  Request([userId |-> "u1", conceptId |-> Null, interactionType |-> "compatibility_analysis"],
          [tpl |-> "synthesis_compatibility", data |-> ids],
          [maxTokens |-> 6000, temperature |-> DefaultTemperature], TRUE)

\* categoryIdMapping[id], undefined as Null
Mapped(mapping, id) ==
  LET hits == {m \in mapping : m[1] = id}
  IN IF hits = {} THEN Null ELSE Some((CHOOSE m \in hits : TRUE)[2])

Fail(p, stage) ==
  /\ pc' = [pc EXCEPT ![p] = "failed"]
  /\ loc' = [loc EXCEPT ![p].failStage = stage]

(***************************************************************************)
(* Actions.                                                                *)
(***************************************************************************)
\* a caller enters sendRequest: the hash is computed, then the first await
StartComplete(p) ==
  /\ pc[p] = "idle"
  /\ started < MaxInvocations
  /\ \E r \in Requests :
       /\ req' = [req EXCEPT ![p] = r]
       /\ pc' = [pc EXCEPT ![p] = IF r.useCaching THEN "sr_check" ELSE "sr_call"]
  /\ started' = started + 1
  /\ loc' = [loc EXCEPT ![p] = FreshLoc("complete", started + 1)]
  /\ UNCHANGED <<cache, log, produced, now, prev, syn, db, tpl, pure>>

\* checkCache and the hit branch of sendRequest
CheckCache(p) ==
  /\ pc[p] = "sr_check"
  /\ LET key == CacheKey(generatePromptHash(req[p].prompt))
     IN \E outcome \in {"ok", "raise", "garbage"} :
          LET got == IF outcome = "ok" THEN RedisGet(key)
                     ELSE IF outcome = "garbage" THEN Some(Garbage) ELSE Null
              cached == IF got # Null /\ JsonParses(got[1])
                        THEN Some(JsonParse(got[1])) ELSE Null
              l1 == [loc[p] EXCEPT !.readRaised = (outcome # "ok"), !.nCacheReads = @ + 1]
          IN IF cached # Null
             THEN /\ loc' = [loc EXCEPT ![p] = [l1 EXCEPT !.hit = TRUE,
                                                          !.result = cached[1],
                                                          !.entryExp = cache[key].exp]]
                  /\ pc' = [pc EXCEPT ![p] = ContOk(loc[p].op)]
             ELSE /\ loc' = [loc EXCEPT ![p] = l1]
                  /\ pc' = [pc EXCEPT ![p] = "sr_call"]
  /\ UNCHANGED <<req, cache, log, produced, now, started, prev, syn, db, tpl, pure>>

\* faulty variant: a failed call is attempted once more
CallModelRetry(p) ==
  /\ pc[p] = "sr_call"
  /\ \/ \E resp \in ApiResponses(req[p].prompt.tpl) :
          /\ loc' = [loc EXCEPT ![p].result = ResultOf(resp), ![p].nCalls = @ + 1]
          /\ produced' = produced \cup
               {<<CacheKey(generatePromptHash(req[p].prompt)), ResultOf(resp)>>}
          /\ pc' = [pc EXCEPT ![p] = IF req[p].useCaching THEN "sr_cache" ELSE "sr_log"]
     \/ \E f \in ApiFailures :
          /\ loc' = [loc EXCEPT ![p].nCalls = @ + 1,
                                ![p].failStage = IF loc[p].nCalls = 0 THEN "none" ELSE "model"]
          /\ produced' = produced
          /\ pc' = [pc EXCEPT ![p] = IF loc[p].nCalls = 0 THEN "sr_call" ELSE "failed"]
  /\ UNCHANGED <<req, cache, log, now, started, prev, syn, db, tpl, pure>>

\* axios.post and the construction of result, or the catch block
CallModel(p) ==
  /\ pc[p] = "sr_call"
  /\ \/ \E resp \in ApiResponses(req[p].prompt.tpl) :
          /\ loc' = [loc EXCEPT ![p].result = ResultOf(resp), ![p].nCalls = @ + 1]
          /\ produced' = produced \cup
               {<<CacheKey(generatePromptHash(req[p].prompt)), ResultOf(resp)>>}
          /\ pc' = [pc EXCEPT ![p] = IF req[p].useCaching THEN "sr_cache" ELSE "sr_log"]
     \/ \E f \in ApiFailures :
          /\ loc' = [loc EXCEPT ![p].nCalls = @ + 1, ![p].failStage = "model"]
          /\ produced' = produced
          /\ pc' = [pc EXCEPT ![p] = "failed"]
  /\ UNCHANGED <<req, cache, log, now, started, prev, syn, db, tpl, pure>>

\* faulty variant: cacheResponse lets the error of redisClient.set escape
CacheResponseRethrows(p) ==
  /\ pc[p] = "sr_cache"
  /\ \E ok \in BOOLEAN :
       IF ok
       THEN /\ cache' = RedisSet(CacheKey(generatePromptHash(req[p].prompt)),
                                 JsonStringify(loc[p].result), DefaultTtlSeconds)
            /\ loc' = [loc EXCEPT ![p].nCacheWrites = @ + 1,
                                  ![p].entryExp = now + DefaultTtlSeconds]
            /\ pc' = [pc EXCEPT ![p] = "sr_log"]
       ELSE /\ cache' = cache
            /\ loc' = [loc EXCEPT ![p].writeRaised = TRUE, ![p].failStage = "model"]
            /\ pc' = [pc EXCEPT ![p] = "failed"]
  /\ UNCHANGED <<req, log, produced, now, started, prev, syn, db, tpl, pure>>

\* cacheResponse(promptHash, result) with the default ttlSeconds
CacheResponse(p) ==
  /\ pc[p] = "sr_cache"
  /\ \E ok \in BOOLEAN :
       IF ok
       THEN /\ cache' = RedisSet(CacheKey(generatePromptHash(req[p].prompt)),
                                 JsonStringify(loc[p].result), DefaultTtlSeconds)
            /\ loc' = [loc EXCEPT ![p].nCacheWrites = @ + 1,
                                  ![p].entryExp = now + DefaultTtlSeconds]
       ELSE /\ cache' = cache
            /\ loc' = [loc EXCEPT ![p].writeRaised = TRUE]
  /\ pc' = [pc EXCEPT ![p] = "sr_log"]
  /\ UNCHANGED <<req, log, produced, now, started, prev, syn, db, tpl, pure>>

\* faulty variant: logInteraction lets the error of logClaudeInteraction escape
LogInteractionRethrows(p) ==
  /\ pc[p] = "sr_log"
  /\ \E ok \in BOOLEAN :
       IF ok
       THEN /\ log' = Append(log, InteractionRow(req[p], loc[p].result))
            /\ loc' = [loc EXCEPT ![p].nLogs = @ + 1]
            /\ pc' = [pc EXCEPT ![p] = ContOk(loc[p].op)]
       ELSE /\ log' = log
            /\ loc' = [loc EXCEPT ![p].logRaised = TRUE, ![p].failStage = "model"]
            /\ pc' = [pc EXCEPT ![p] = "failed"]
  /\ UNCHANGED <<req, cache, produced, now, started, prev, syn, db, tpl, pure>>

\* logInteraction, then return result
LogInteraction(p) ==
  /\ pc[p] = "sr_log"
  /\ \E ok \in BOOLEAN :
       IF ok
       THEN /\ log' = Append(log, InteractionRow(req[p], loc[p].result))
            /\ loc' = [loc EXCEPT ![p].nLogs = @ + 1]
       ELSE /\ log' = log
            /\ loc' = [loc EXCEPT ![p].logRaised = TRUE]
  /\ pc' = [pc EXCEPT ![p] = ContOk(loc[p].op)]
  /\ UNCHANGED <<req, cache, produced, now, started, prev, syn, db, tpl, pure>>

\* SynthesisService.synthesizeConcepts up to its first await
StartSynthesize(p) ==
  /\ pc[p] = "idle"
  /\ started < MaxInvocations
  /\ started' = started + 1
  /\ \E ids \in ConceptIdLists :
       /\ syn' = [syn EXCEPT ![p] = [FreshSyn EXCEPT !.ids = ids]]
       /\ IF SynthesizeTooFew(ids)
          THEN /\ pc' = [pc EXCEPT ![p] = "failed"]
               /\ loc' = [loc EXCEPT ![p] =
                    [FreshLoc("synthesize", started + 1) EXCEPT !.failStage = "guard"]]
          ELSE /\ pc' = [pc EXCEPT ![p] = "load"]
               /\ loc' = [loc EXCEPT ![p] = FreshLoc("synthesize", started + 1)]
  /\ UNCHANGED <<req, cache, log, db, produced, now, prev, tpl, pure>>

\* SynthesisService.analyzeSynthesisCompatibility up to its first await
StartAnalyze(p) ==
  /\ pc[p] = "idle"
  /\ started < MaxInvocations
  /\ started' = started + 1
  /\ \E ids \in ConceptIdLists :
       /\ syn' = [syn EXCEPT ![p] = [FreshSyn EXCEPT !.ids = ids]]
       /\ IF AnalyzeTooFew(ids)
          THEN /\ pc' = [pc EXCEPT ![p] = "failed"]
               /\ loc' = [loc EXCEPT ![p] =
                    [FreshLoc("analyze", started + 1) EXCEPT !.failStage = "guard"]]
          ELSE /\ pc' = [pc EXCEPT ![p] = "load"]
               /\ loc' = [loc EXCEPT ![p] = FreshLoc("analyze", started + 1)]
  /\ UNCHANGED <<req, cache, log, db, produced, now, prev, tpl, pure>>

\* the reads that precede the first missing concept: two per concept found
ReadsUntilMissing(ids) ==
  LET missing == {i \in 1..Len(ids) : ids[i] \notin SourceConcepts}
  IN IF missing = {} THEN 2 * Len(ids)
     ELSE 2 * ((CHOOSE x \in missing : \A y \in missing : x <= y) - 1) + 1

\* the loop of getConcept / getConceptGraph, then the prompt is prepared and
\* sendRequest is entered; a read may fail
LoadConcepts(p) ==
  /\ pc[p] = "load"
  /\ LET ids == syn[p].ids
         all == \A i \in 1..Len(ids) : ids[i] \in SourceConcepts
     IN \E failAt \in 0..ReadsUntilMissing(ids) :
          IF failAt = 0 /\ all
          THEN /\ syn' = [syn EXCEPT ![p].reads = 2 * Len(ids)]
               /\ req' = [req EXCEPT ![p] = IF loc[p].op = "synthesize"
                                            THEN SynthesisRequest(ids)
                                            ELSE CompatibilityRequest(ids)]
               /\ pc' = [pc EXCEPT ![p] = "sr_check"]
               /\ loc' = loc
          ELSE /\ syn' = [syn EXCEPT ![p].reads =
                            IF failAt = 0 THEN ReadsUntilMissing(ids) ELSE failAt]
               /\ req' = req
               /\ Fail(p, "load")
  /\ UNCHANGED <<cache, log, db, produced, now, started, prev, tpl, pure>>

\* the compatibility response is parsed: no step of it raises
ParseCompatibility(p) ==
  /\ pc[p] = "ana_parse"
  /\ pc' = [pc EXCEPT ![p] = "done"]
  /\ UNCHANGED <<req, loc, syn, cache, log, db, produced, now, started, prev, tpl, pure>>

\* faulty variant: the concept row is stored before the draft is materialised
ParseDraftAfterWrite(p) ==
  /\ pc[p] = "syn_parse"
  /\ LET r == ParseSynthesis(loc[p].result.response, syn[p].ids)
     IN /\ db' = [db EXCEPT !.concepts = @ \cup
                     {Row(db.nextId, db.nextId, r.name, 0, 0, loc[p].inv)},
                             !.nextId = @ + 1]
        /\ IF r.ok
           THEN /\ syn' = [syn EXCEPT ![p].name = r.name, ![p].categories = r.categories,
                                      ![p].connections = r.connections]
                /\ pc' = [pc EXCEPT ![p] = "syn_concept"]
                /\ loc' = loc
           ELSE /\ syn' = syn
                /\ Fail(p, "parse")
  /\ UNCHANGED <<req, cache, log, produced, now, started, prev, tpl, pure>>

\* ClaudeService.synthesizeConcepts after sendRequest: the draft is extracted
\* and materialised; the result goes to createConcept
ParseDraft(p) ==
  /\ pc[p] = "syn_parse"
  /\ LET r == ParseSynthesis(loc[p].result.response, syn[p].ids)
     IN IF r.ok
        THEN /\ syn' = [syn EXCEPT ![p].name = r.name, ![p].categories = r.categories,
                                   ![p].connections = r.connections]
             /\ pc' = [pc EXCEPT ![p] = "syn_concept"]
             /\ loc' = loc
        ELSE /\ syn' = syn
             /\ Fail(p, "parse")
  /\ UNCHANGED <<req, cache, log, db, produced, now, started, prev, tpl, pure>>

\* 1. dbService.createConcept: the row is committed, or nothing is
CreateConcept(p) ==
  /\ pc[p] = "syn_concept"
  /\ \E ok \in BOOLEAN :
       IF ok
       THEN /\ db' = [db EXCEPT !.concepts = @ \cup
                        {Row(db.nextId, db.nextId, syn[p].name, 0, 0, loc[p].inv)},
                                !.nextId = @ + 1]
            /\ syn' = [syn EXCEPT ![p].concept_id = db.nextId]
            /\ pc' = [pc EXCEPT ![p] = "syn_categories"]
            /\ loc' = loc
       ELSE /\ UNCHANGED <<db, syn>>
            /\ Fail(p, "concept")
  /\ UNCHANGED <<req, cache, log, produced, now, started, prev, tpl, pure>>

\* 2. one turn of the loop over synthesisResult.graph.categories
CreateCategory(p) ==
  /\ pc[p] = "syn_categories"
  /\ IF syn[p].ci > Len(syn[p].categories)
     THEN /\ pc' = [pc EXCEPT ![p] = "syn_connections"]
          /\ UNCHANGED <<db, syn, loc>>
     ELSE \E ok \in BOOLEAN :
            IF ok
            THEN /\ db' = [db EXCEPT !.categories = @ \cup
                             {Row(db.nextId, syn[p].concept_id,
                                  <<syn[p].categories[syn[p].ci].name, << >> >>,
                                  0, 0, loc[p].inv)},
                                     !.nextId = @ + 1]
                 /\ syn' = [syn EXCEPT ![p].mapping = @ \cup
                              {<<syn[p].categories[syn[p].ci].category_id, db.nextId>>},
                                       ![p].ci = @ + 1]
                 /\ UNCHANGED <<pc, loc>>
            ELSE /\ UNCHANGED <<db, syn>>
                 /\ Fail(p, "category")
  /\ UNCHANGED <<req, cache, log, produced, now, started, prev, tpl, pure>>

\* 3. one turn of the loop over synthesisResult.graph.connections
CreateConnection(p) ==
  /\ pc[p] = "syn_connections"
  /\ IF syn[p].ki > Len(syn[p].connections)
     THEN /\ pc' = [pc EXCEPT ![p] = "syn_meta"]
          /\ UNCHANGED <<db, syn, loc>>
     ELSE LET c == syn[p].connections[syn[p].ki]
              sourceId == Mapped(syn[p].mapping, c.source_category_id)
              targetId == Mapped(syn[p].mapping, c.target_category_id)
          IN IF sourceId = Null \/ targetId = Null
             THEN /\ syn' = [syn EXCEPT ![p].ki = @ + 1]
                  /\ UNCHANGED <<db, pc, loc>>
             ELSE \E ok \in BOOLEAN :
                    IF ok
                    THEN /\ db' = [db EXCEPT !.connections = @ \cup
                                     {Row(db.nextId, syn[p].concept_id,
                                          <<c.connection_type, << >> >>,
                                          sourceId[1], targetId[1], loc[p].inv)},
                                             !.nextId = @ + 1]
                         /\ syn' = [syn EXCEPT ![p].ki = @ + 1]
                         /\ UNCHANGED <<pc, loc>>
                    ELSE /\ UNCHANGED <<db, syn>>
                         /\ Fail(p, "connection")
  /\ UNCHANGED <<req, cache, log, produced, now, started, prev, tpl, pure>>

\* 4. dbService.createSynthesisMeta
CreateSynthesisMeta(p) ==
  /\ pc[p] = "syn_meta"
  /\ \E ok \in BOOLEAN :
       IF ok
       THEN /\ db' = [db EXCEPT !.metas = @ \cup
                        {Row(db.nextId, syn[p].concept_id, <<"", syn[p].ids>>,
                             0, 0, loc[p].inv)},
                                !.nextId = @ + 1]
            /\ pc' = [pc EXCEPT ![p] = "syn_graph"]
            /\ loc' = loc
       ELSE /\ db' = db
            /\ Fail(p, "meta")
  /\ UNCHANGED <<req, syn, cache, log, produced, now, started, prev, tpl, pure>>

\* 5. conceptService.getConceptGraph of the new concept, then the return
ReadNewGraph(p) ==
  /\ pc[p] = "syn_graph"
  /\ \E ok \in BOOLEAN :
       IF ok /\ \E r \in db.concepts : r.concept_id = syn[p].concept_id
       THEN /\ pc' = [pc EXCEPT ![p] = "done"]
            /\ loc' = loc
       ELSE Fail(p, "graph")
  /\ UNCHANGED <<req, syn, cache, log, db, produced, now, started, prev, tpl, pure>>

\* the caller has its result or its error; the process is free again
Finish(p) ==
  /\ pc[p] \in {"done", "failed"}
  /\ pc' = [pc EXCEPT ![p] = "idle"]
  /\ req' = [req EXCEPT ![p] = NoRequest]
  /\ loc' = [loc EXCEPT ![p] = FreshLoc("", 0)]
  /\ syn' = [syn EXCEPT ![p] = FreshSyn]
  /\ prev' = IF loc[p].op = "complete" /\ \A q \in Procs \ {p} : pc[q] = "off"
             THEN PrevOf(req[p], loc[p], pc[p] = "done")
             ELSE prev
  /\ UNCHANGED <<cache, log, db, produced, now, started, tpl, pure>>

\* wall-clock time passes between invocations
Tick ==
  /\ \A p \in Procs : pc[p] \in {"idle", "off"}
  /\ now < MaxTicks * TickSeconds
  /\ now' = now + TickSeconds
  /\ UNCHANGED <<pc, req, loc, cache, log, produced, started, prev, syn, db, tpl, pure>>

(***************************************************************************)
(* PromptTemplateService: the backing files, the shared entry              *)
(* 'prompt_templates' and the in-memory map of each service instance.      *)
(* A template is held by the name of its body.                             *)
(***************************************************************************)
\* the templateFiles list of loadTemplates, cut to two names
TemplateFiles == <<"graph_validation", "concept_synthesis">>

TemplateNames == {"graph_validation", "concept_synthesis", "custom"}

\* the body a writing operation brings; the files start with "v1"
TemplateValues == {"v2"}

\* each ClaudeService constructs its own PromptTemplateService
Services == {1, 2}

File(st, body) == [st |-> st, body |-> body]

NoFile == File("missing", "")

MapSet(m, n, v) == [k \in DOMAIN m \cup {n} |-> IF k = n THEN v ELSE m[k]]

MapDelete(m, n) == [k \in DOMAIN m \ {n} |-> m[k]]

\* for (const [name, template] of ...) this.templates.set(name, template)
MapMerge(m, over) ==
  [k \in DOMAIN m \cup DOMAIN over |-> IF k \in DOMAIN over THEN over[k] ELSE m[k]]

\* this.templates.get(name), undefined as Null
MapGet(m, n) == IF n \in DOMAIN m THEN Some(m[n]) ELSE Null

NoGet == [made |-> FALSE, by |-> 0, name |-> "", res |-> Null, raised |-> FALSE,
          src |-> "", badOther |-> FALSE, fileOk |-> FALSE]

\* the three copies of one template: the file, the map of the instance, the
\* shared entry
Copies(t, i, n) ==
  [file |-> t.files[n],
   memory |-> MapGet(t.svc[i].templates, n),
   shared |-> IF t.shared = Null THEN <<"no entry">>
              ELSE IF n \in DOMAIN t.shared[1] THEN <<"has", t.shared[1][n]>>
              ELSE <<"lacks">>]

\* the store with the given files, before any instance has loaded
Store(files) ==
  [files |-> files, shared |-> Null, svc |-> [i \in Services |-> [templates |-> << >>, loaded |-> FALSE]],
   expected |-> << >>, g |-> NoGet, ops |-> 0,
   w |-> [made |-> FALSE, by |-> 0, op |-> "", name |-> "", val |-> "",
          ok |-> FALSE, raised |-> FALSE,
          pre |-> [file |-> NoFile, memory |-> Null, shared |-> <<"no entry">>],
          post |-> [file |-> NoFile, memory |-> Null, shared |-> <<"no entry">>]]]

AllFilesOk ==
  [n \in TemplateNames |-> IF n = "custom" THEN NoFile ELSE File("ok", "v1")]

\* the call of the backends that raises during an operation, if any
Faults == {"none", "get", "file", "set"}

\* loadTemplates of instance i: the state after it and whether it returned;
\* getOk and setOk say whether redisClient.get / redisClient.set answer
LoadTemplates(t, i, getOk, setOk) ==
  IF t.svc[i].loaded THEN [t |-> t, ok |-> TRUE, src |-> "memory", bad |-> {}]
  ELSE IF ~getOk THEN [t |-> t, ok |-> FALSE, src |-> "shared", bad |-> {}]
  ELSE IF t.shared # Null
  THEN [t |-> [t EXCEPT !.svc[i] =
                 [templates |-> MapMerge(t.svc[i].templates, t.shared[1]), loaded |-> TRUE]],
        ok |-> TRUE, src |-> "shared", bad |-> {}]
  ELSE LET bad == {k \in 1..Len(TemplateFiles) : t.files[TemplateFiles[k]].st # "ok"}
           stop == IF bad = {} THEN Len(TemplateFiles) + 1
                   ELSE CHOOSE x \in bad : \A y \in bad : x <= y
           read == {TemplateFiles[k] : k \in 1..(stop - 1)}
           mem == MapMerge(t.svc[i].templates, [n \in read |-> t.files[n].body])
           names == {TemplateFiles[k] : k \in bad}
       IN IF bad # {} \/ ~setOk
          THEN [t |-> [t EXCEPT !.svc[i].templates = mem],
                ok |-> FALSE, src |-> "files", bad |-> names]
          ELSE [t |-> [t EXCEPT !.svc[i] = [templates |-> mem, loaded |-> TRUE],
                                !.shared = Some(mem)],
                ok |-> TRUE, src |-> "files", bad |-> names]

\* getTemplate(name) of instance i
GetTemplate(i, n) ==
  /\ tpl.ops < MaxTemplateOps
  /\ \E fault \in Faults \ {"file"} :
       LET l == LoadTemplates(tpl, i, fault # "get", fault # "set")
       IN tpl' = [l.t EXCEPT
            !.ops = @ + 1,
            !.g = [made |-> TRUE, by |-> i, name |-> n,
                   res |-> IF l.ok THEN MapGet(l.t.svc[i].templates, n) ELSE Null,
                   raised |-> ~l.ok, src |-> l.src,
                   badOther |-> l.bad \ {n} # {},
                   fileOk |-> tpl.files[n].st = "ok"]]
  /\ UNCHANGED <<pc, req, loc, syn, cache, log, db, produced, now, started, prev, pure>>

\* the file write, the map update and the shared write common to the three
\* writing operations, after the lazy load l of instance i
WriteThrough(l, i, op, n, v, fileOk, setOk) ==
  LET t == l.t
      present == n \in DOMAIN t.svc[i].templates
      refused == IF op = "create" THEN present ELSE ~present
      unlinkFails == op = "delete" /\ t.files[n].st = "missing"
      file1 == IF op = "delete" THEN NoFile ELSE File("ok", v)
      mem1 == IF op = "delete" THEN MapDelete(t.svc[i].templates, n)
              ELSE MapSet(t.svc[i].templates, n, v)
      t1 == [t EXCEPT !.files[n] = file1, !.svc[i].templates = mem1]
      t2 == [t1 EXCEPT !.shared = Some(mem1)]
      after == IF ~l.ok \/ refused \/ ~fileOk \/ unlinkFails THEN t
               ELSE IF ~setOk THEN t1 ELSE t2
      ok == l.ok /\ ~refused /\ fileOk /\ ~unlinkFails /\ setOk
  IN [after EXCEPT
        !.ops = @ + 1,
        !.g = NoGet,
        !.expected = IF ok THEN MapSet(@, n, IF op = "delete" THEN Null ELSE Some(v))
                     ELSE MapDelete(@, n),
        !.w = [made |-> TRUE, by |-> i, op |-> op, name |-> n, val |-> v,
               ok |-> ok, raised |-> ~l.ok,
               pre |-> Copies(t, i, n), post |-> Copies(after, i, n)]]

\* updateTemplate(name, template) of instance i
UpdateTemplate(i, n, v) ==
  /\ tpl.ops < MaxTemplateOps
  /\ \E fault \in Faults :
       tpl' = WriteThrough(LoadTemplates(tpl, i, fault # "get", TRUE), i, "update", n, v,
                           fault # "file", fault # "set")
  /\ UNCHANGED <<pc, req, loc, syn, cache, log, db, produced, now, started, prev, pure>>

\* createTemplate(name, template) of instance i
CreateTemplate(i, n, v) ==
  /\ tpl.ops < MaxTemplateOps
  /\ \E fault \in Faults :
       tpl' = WriteThrough(LoadTemplates(tpl, i, fault # "get", TRUE), i, "create", n, v,
                           fault # "file", fault # "set")
  /\ UNCHANGED <<pc, req, loc, syn, cache, log, db, produced, now, started, prev, pure>>

\* deleteTemplate(name) of instance i
DeleteTemplate(i, n) ==
  /\ tpl.ops < MaxTemplateOps
  /\ \E fault \in Faults :
       tpl' = WriteThrough(LoadTemplates(tpl, i, fault # "get", TRUE), i, "delete", n, "",
                           fault # "file", fault # "set")
  /\ UNCHANGED <<pc, req, loc, syn, cache, log, db, produced, now, started, prev, pure>>

\* the shared entry reaches the end of its 'EX' 3600 life
ExpireTemplates ==
  /\ tpl.shared # Null
  /\ tpl' = [tpl EXCEPT !.shared = Null]
  /\ UNCHANGED <<pc, req, loc, syn, cache, log, db, produced, now, started, prev, pure>>

(***************************************************************************)
(* ClaudeService.preparePrompt: the substitution of the declared           *)
(* parameters.  A string is a sequence of tokens <<kind, text, origin>>:   *)
(* literal text, a placeholder {{name}}, or, in a value, one of the        *)
(* replacement patterns of String.prototype.replace.  The origin says      *)
(* whether the token was written in the template or in a value of the      *)
(* context; the substitution does not look at it.                          *)
(***************************************************************************)
Lit(s, o) == <<"lit", s, o>>
Ph(n, o) == <<"ph", n, o>>
Amp == <<"$&", "", "d">>
Dollars == <<"$$", "", "d">>

IsPlaceholder(tok, param) == tok[1] = "ph" /\ tok[2] = param

StringValue(text) == [type |-> "string", text |-> text]

\* the string that is handed to replace for a value of the context:
\* JSON.stringify(value, null, 2) for a structured value
ValueString(value) ==
  IF value.type = "object" THEN <<Lit("{", "d")>> \o value.text \o <<Lit("}", "d")>>
  ELSE value.text

\* the replacement string as replace inserts it for one match: $& is the
\* matched text, $$ is a dollar sign
Expand(repl, matched) ==
  [i \in 1..Len(repl) |->
     IF repl[i] = Amp THEN matched
     ELSE IF repl[i] = Dollars THEN Lit("$", "d") ELSE repl[i]]

\* prompt.replace(new RegExp(`\\{\\{${param}\\}\\}`, 'g'), repl)
RECURSIVE ReplaceAll(_, _, _)
ReplaceAll(prompt, param, repl) ==
  IF prompt = << >> THEN << >>
  ELSE (IF IsPlaceholder(Head(prompt), param) THEN Expand(repl, Head(prompt))
        ELSE <<Head(prompt)>>)
       \o ReplaceAll(Tail(prompt), param, repl)

\* faulty variant: the placeholder of a missing parameter is left in place
SubstituteOneKeepsMissing(prompt, param, data) ==
  IF param \notin DOMAIN data THEN prompt
  ELSE ReplaceAll(prompt, param, ValueString(data[param]))

\* one turn of the loop over template.parameters
SubstituteOne(prompt, param, data) ==
  IF param \notin DOMAIN data THEN ReplaceAll(prompt, param, << >>)
  ELSE ReplaceAll(prompt, param, ValueString(data[param]))

\* the loop over template.parameters, from the k-th parameter on
RECURSIVE Substitute(_, _, _, _)
Substitute(prompt, parameters, k, data) ==
  IF k > Len(parameters) THEN prompt
  ELSE Substitute(SubstituteOne(prompt, parameters[k], data), parameters, k + 1, data)

\* preparePrompt for the template getTemplate returned (Null: not found)
PreparePromptOf(template, data) ==
  IF template = Null THEN [ok |-> FALSE, prompt |-> << >>]
  ELSE [ok |-> TRUE,
        prompt |-> Substitute(template[1].template, template[1].parameters, 1, data)]

ParamNames == {"a", "b"}

ParameterLists == { <<"a">>, <<"a", "b">>, <<"b", "a">> }

\* the orderings of a parameter list
Orderings(parameters) ==
  { q \in ParameterLists :
      Len(q) = Len(parameters)
      /\ {q[i] : i \in 1..Len(q)} = {parameters[i] : i \in 1..Len(parameters)} }

\* preparePrompt is applied to the chosen template and context
RenderPrompt ==
  /\ pure.kind = "render" /\ ~pure.done
  /\ LET r == PreparePromptOf(Some([template |-> pure.template,
                                    parameters |-> pure.parameters]), pure.data)
     IN pure' = [pure EXCEPT !.done = TRUE, !.ok = r.ok, !.out = r.prompt]
  /\ UNCHANGED <<pc, req, loc, syn, cache, log, db, produced, now, started, prev, tpl>>

\* preparePrompt is applied again to the same template text and context, the
\* parameter list of the template in another order
RenderReordered ==
  /\ pure.kind = "render" /\ pure.done /\ ~pure.redone
  /\ \E q \in Orderings(pure.parameters) :
       LET r == PreparePromptOf(Some([template |-> pure.template, parameters |-> q]),
                                pure.data)
       IN pure' = [pure EXCEPT !.redone = TRUE, !.reordered = q, !.out2 = r.prompt]
  /\ UNCHANGED <<pc, req, loc, syn, cache, log, db, produced, now, started, prev, tpl>>

(***************************************************************************)
(* The parsers of the response text, one per operation kind.  A result is  *)
(* [ok, free, collections]: whether the parsing step returned, the value   *)
(* of the primary free-text field of the result type (Null when the type   *)
(* has none) and the lists of the result.  A line "N. body" has kind       *)
(* "num", a line "- body" kind "item" or "bullet", and a heading           *)
(* "## name score / 1" holds the score as its body.                        *)
(***************************************************************************)
Parsed(free, collections) == [ok |-> TRUE, free |-> free, collections |-> collections]

\* the parsing step throws; the catch block of the operation rethrows
Raised == [ok |-> FALSE, free |-> Null, collections |-> << >>]

\* text.split(/\n-\s+/).slice(1) is ItemsFrom(text, 2): one element per
\* "- " that starts a line after the first, with the lines that continue it
RECURSIVE ItemsFrom(_, _)
ItemsFrom(body, i) ==
  IF i > Len(body) THEN << >>
  ELSE IF body[i].k \in {"item", "bullet"}
       THEN LET later == {j \in (i + 1)..Len(body) : body[j].k \in {"item", "bullet"}}
                stop == IF later = {} THEN Len(body) + 1
                        ELSE CHOOSE x \in later : \A y \in later : x <= y
            IN <<SubSeq(body, i, stop - 1)>> \o ItemsFrom(body, stop)
       ELSE ItemsFrom(body, i + 1)

\* the positions response.split(/\d+\.\s+/) cuts at
NumMarkers(text) == {i \in 1..Len(text) : text[i].k = "num"}

\* sections[j] for j >= 1, undefined as Null; sections.length is one more
\* than the number of markers.  The \s+ of the marker takes the line break
\* after a marker that stands alone on its line, so that the section then
\* starts with the line that follows it.
SectionAt(text, j) ==
  LET M == NumMarkers(text)
  IN IF j >= Cardinality(M) + 1 THEN Null
     ELSE LET a == CHOOSE i \in M : Cardinality({x \in M : x < i}) = j - 1
              later == {x \in M : x > a}
              b == IF later = {} THEN Len(text) + 1
                   ELSE CHOOSE x \in later : \A y \in later : x <= y
          IN Some((IF text[a].body = "" THEN << >> ELSE <<Text(text[a].body)>>)
                  \o SubSeq(text, a + 1, b - 1))

\* determineSeverity(text) for the text of one item: the texts of the
\* responses that hold a high keyword, then those that hold a low keyword
determineSeverity(item) ==
  IF \E i \in 1..Len(item) : item[i].body \in {"critical issue: Y", "minor but critical"}
  THEN "high"
  ELSE IF \E i \in 1..Len(item) : item[i].body \in {"minor issue: X"} THEN "low"
  ELSE "medium"

\* the issues .map(text => ({issue_type, description, severity})) builds
Issues(issue_type, items) ==
  [i \in 1..Len(items) |->
     [issue_type |-> issue_type, description |-> items[i],
      severity |-> determineSeverity(items[i])]]

\* the parsing step of validateGraph; a suggestion is held by its
\* description, from which its type is computed
ValidationResultOf(text) ==
  IF Cardinality(NumMarkers(text)) + 1 >= 4
  THEN IF \E j \in 1..4 : SectionAt(text, j) = Null
       THEN Raised
       ELSE Parsed(SectionAt(text, 1),
                   << Issues("contradiction", ItemsFrom(SectionAt(text, 2)[1], 2)),
                      Issues("missing_element", ItemsFrom(SectionAt(text, 3)[1], 2)),
                      ItemsFrom(SectionAt(text, 4)[1], 2) >>)
  ELSE Parsed(Some(text), << << >>, << >>, << >> >>)

\* the items of the section under a heading, none when the heading is absent
SectionItems(text, name) ==
  IF SectionMatch(text, name) = Null THEN << >> ELSE ItemsFrom(SectionMatch(text, name)[1], 2)

\* the parsing step of enrichCategory
CategoryEnrichmentOf(text) ==
  Parsed(IF SectionMatch(text, "Rasshirennoe opisanie") # Null
         THEN SectionMatch(text, "Rasshirennoe opisanie") ELSE Some(text),
         << SectionItems(text, "Alternativnye traktovki"),
            SectionItems(text, "Istoricheskie analogi"),
            SectionItems(text, "Svyazannye kontsepty") >>)

\* the parsing step of enrichConnection
ConnectionEnrichmentOf(text) ==
  Parsed(IF SectionMatch(text, "Filosofskoe obosnovanie") # Null
         THEN SectionMatch(text, "Filosofskoe obosnovanie") ELSE Some(text),
         << SectionItems(text, "Vozmozhnye kontrargumenty"),
            SectionItems(text, "Analogichnye svyazi"),
            << >> >>)

\* String.prototype.toLowerCase on the names and words of the model
ToLowerCase(name) ==
  CASE name \in {"Being", "BEING", "being"} -> "being"
    [] name \in {"Becoming", "BECOMING", "becoming"} -> "becoming"
    [] name \in {"Da", "DA", "da"} -> "da"
    [] OTHER -> name

\* conceptGraph.categories of the graph the theses are generated for
GraphCategories ==
  << [category_id |-> "c1", name |-> "Being"], [category_id |-> "c2", name |-> "Becoming"],
     [category_id |-> "c3", name |-> "being"] >>

\* faulty variant: a name that matches no category gets the first category
FindCategoryFuzzy(name) ==
  LET hits == {i \in 1..Len(GraphCategories) :
                 ToLowerCase(GraphCategories[i].name) = ToLowerCase(name)}
  IN IF hits = {} THEN Some(GraphCategories[1].category_id)
     ELSE Some(GraphCategories[CHOOSE i \in hits : \A j \in hits : i <= j].category_id)

\* conceptGraph.categories.find(c => c.name.toLowerCase() === name.toLowerCase())
\* and the choice of its category_id or null
FindCategory(name) ==
  LET hits == {i \in 1..Len(GraphCategories) :
                 ToLowerCase(GraphCategories[i].name) = ToLowerCase(name)}
  IN IF hits = {} THEN Null
     ELSE Some(GraphCategories[CHOOSE i \in hits : \A j \in hits : i <= j].category_id)

\* generateTheses returns the array the loop over thesisRegex fills: one
\* thesis per line "N. text".  An indented line "- Istochnik: n1, n2" right
\* after it (kind "source", the names in the fields name and tgt) gives
\* sourcesText; without it sourcesText is '' and split gives the one name ''.
ThesesOf(text) ==
  LET at == SelectSeq([i \in 1..Len(text) |-> i], LAMBDA i : text[i].k = "num")
      names(i) == IF i < Len(text) /\ text[i + 1].k = "source"
                  THEN IF text[i + 1].tgt = "" THEN <<text[i + 1].name>>
                       ELSE <<text[i + 1].name, text[i + 1].tgt>>
                  ELSE <<"">>
      found(i) == SelectSeq([k \in 1..Len(names(i)) |-> FindCategory(names(i)[k])],
                            LAMBDA id : id # Null)
  IN Parsed(Null,
            << [j \in 1..Len(at) |->
                  [text |-> text[at[j]].body,
                   categories |-> [k \in 1..Len(found(at[j])) |-> found(at[j])[k][1]],
                   connections |-> << >>]] >>)

\* extractCompatibilityElements / the loop over strategyRegex on the text a
\* section match captured: one element per "### name" of that text, with
\* the lines up to the next "###" as its content
SectionElements(text, name) ==
  IF SectionMatch(text, name) = Null THEN << >>
  ELSE LET body == SectionMatch(text, name)[1]
           at == SelectSeq([i \in 1..Len(body) |-> i], LAMBDA i : body[i].k = "h3")
       IN [j \in 1..Len(at) |->
             [name |-> body[at[j]].name,
              content |-> SubSeq(body, at[j] + 1,
                                 IF j < Len(at) THEN at[j + 1] - 1 ELSE Len(body))]]

\* the parsing step of analyseSynthesisCompatibility.  A line
\* "Rekomenduetsya: w" has kind "rec" and body w; recommendedMatch captures
\* all that follows the label, so the flag is set when the label line ends
\* the content and its lower-cased word is "da".
CompatibilityAnalysisOf(text) ==
  LET strategies == SectionElements(text, "Vozmozhnye strategii sinteza")
      recommended(c) == \E i \in 1..Len(c) :
                          /\ c[i].k = "rec" /\ \A k \in 1..(i - 1) : c[k].k # "rec"
                          /\ i = Len(c) /\ ToLowerCase(c[i].body) = "da"
  IN Parsed(Null,
            << SectionElements(text, "Polnostyu sovmestimye elementy"),
               SectionElements(text, "Potentsialno sovmestimye elementy"),
               SectionElements(text, "Printsipialno nesovmestimye elementy"),
               [j \in 1..Len(strategies) |->
                  [strategy_name |-> strategies[j].name,
                   recommended |-> recommended(strategies[j].content)]] >>)

\* the parsing step of synthesizeConcepts; the free text is newConceptDesc.
\* The third list is origin_mapping, which is built as the literal
\* {category_mapping: {}, connection_mapping: {}} and not written afterwards.
SynthesisResultOf(text) ==
  IF ParseSynthesis(text, <<"c1", "c2">>).ok
  THEN Parsed(Some(IF SectionMatch(text, "Opisanie") # Null
                   THEN SectionMatch(text, "Opisanie")[1] ELSE EmptyText),
              << ParseSynthesis(text, <<"c1", "c2">>).categories,
                 ParseSynthesis(text, <<"c1", "c2">>).connections,
                 << >> >>)
  ELSE Raised

\* the parsing step of criticallyAnalyzeSynthesis; the primary free text is
\* internal_consistency.analysis, the text consistencyMatch finds under the
\* first heading of that name that holds a score
CriticalAnalysisOf(text) ==
  LET starts == {i \in 1..Len(text) :
                   /\ IsHeading(text[i]) /\ text[i].body # ""
                   /\ text[i].name = "Vnutrennyaya soglasovannost"}
      i == CHOOSE x \in starts : \A y \in starts : x <= y
      ends == {j \in (i + 1)..Len(text) : IsHeading(text[j])}
      j == IF ends = {} THEN Len(text) + 1 ELSE CHOOSE x \in ends : \A y \in ends : x <= y
  IN Parsed(IF starts = {} THEN Some(EmptyText) ELSE Some(SubSeq(text, i + 1, j - 1)),
            << SectionElements(text, "Potentsialnye problemy") >>)

OperationKinds ==
  {"graph_validation", "category_enrichment", "connection_enrichment",
   "thesis_generation", "compatibility_analysis", "concept_synthesis", "critical_analysis"}

ParserOf(kind, text) ==
  CASE kind = "graph_validation" -> ValidationResultOf(text)
    [] kind = "category_enrichment" -> CategoryEnrichmentOf(text)
    [] kind = "connection_enrichment" -> ConnectionEnrichmentOf(text)
    [] kind = "thesis_generation" -> ThesesOf(text)
    [] kind = "compatibility_analysis" -> CompatibilityAnalysisOf(text)
    [] kind = "concept_synthesis" -> SynthesisResultOf(text)
    [] OTHER -> CriticalAnalysisOf(text)

\* a response with the given number of numbered sections, two items in each
Numbered(n) ==
  [i \in 1..(3 * n) |->
     IF i % 3 = 1 THEN Line("num", "", "", "", "section")
     ELSE IF i % 3 = 2 THEN Line("item", "", "", "", "minor issue: X")
     ELSE Line("item", "", "", "", "critical issue: Y")]

\* what the model may answer
ResponseTexts ==
  { EmptyText, PlainText, << Text("one"), Text("two") >>,
    Numbered(1), Numbered(2), Numbered(3), Numbered(4), Numbered(5),
    << Text("intro") >> \o Numbered(3),
    [Numbered(4) EXCEPT ![4] = Line("num", "", "", "", "")],
    [Numbered(4) EXCEPT ![6] = Line("item", "", "", "", "minor but critical")],
    [Numbered(4) EXCEPT ![5] = Line("item", "", "", "", "plain"), ![6] = Text("more")],
    << H2("Rasshirennoe opisanie"), Text("long"),
       H2("Alternativnye traktovki"), Text("intro"),
       Line("item", "", "", "", "one"), Line("item", "", "", "", "two") >>,
    << Line("h2", "Vnutrennyaya soglasovannost", "", "", "0.8 / 1"), Text("consistent") >>,
    << Line("num", "", "", "", "All is flux."), Line("source", "Becoming", "", "", ""),
       Line("just", "", "", "", "derived from definition") >>,
    << Line("num", "", "", "", "One"), Line("source", "BEING", "", "Ghost", "") >>,
    << Line("num", "", "", "", "One"), Line("source", "Ghost", "", "", ""),
       Line("num", "", "", "", "Two"), Text("more"), Line("source", "Being", "", "", ""),
       Line("num", "", "", "", "Three"), Line("source", "becoming", "", "Being", "") >>,
    << H2("Polnostyu sovmestimye elementy"), H3("E1"), Text("why"), H3("E2"), Text("why2"),
       H2("Printsipialno nesovmestimye elementy"), Text("none"),
       H2("Vozmozhnye strategii sinteza"), H3("S1"), Text("d"), Line("rec", "", "", "", "Da"),
       H3("S2"), Line("rec", "", "", "", "net") >>,
    << H2("Kategorii"), H3("Unity"), Text("def1"), Line("origin", "", "", "", "c1") >>,
    CategoriesOnlyText, FullText, UnresolvedText }

\* the parsing step of an operation is applied to the response text
ParseResponse ==
  /\ pure.kind = "parse" /\ ~pure.done
  /\ pure' = [pure EXCEPT !.done = TRUE, !.out = ParserOf(pure.op, pure.text)]
  /\ UNCHANGED <<pc, req, loc, syn, cache, log, db, produced, now, started, prev, tpl>>

(***************************************************************************)
(* ClaudeService.validateGraph: the prompt is built from the template      *)
(* 'graph_validation' of the service's own PromptTemplateService           *)
(* (instance 1), sent through sendRequest and the response is parsed.      *)
(***************************************************************************)
\* validateGraph is called
StartValidate(p) ==
  /\ pc[p] = "idle"
  /\ started < MaxInvocations
  /\ started' = started + 1
  /\ pc' = [pc EXCEPT ![p] = "prep"]
  /\ loc' = [loc EXCEPT ![p] = FreshLoc("validate", started + 1)]
  /\ UNCHANGED <<req, cache, log, produced, now, prev, syn, db, tpl, pure>>

\* faulty variant: without a template the request goes on with an empty prompt
PreparePromptLenient(p) ==
  /\ pc[p] = "prep"
  /\ \E fault \in Faults \ {"file"} :
       LET l == LoadTemplates(tpl, 1, fault # "get", fault # "set")
           found == IF l.ok THEN MapGet(l.t.svc[1].templates, "graph_validation") ELSE Null
       IN /\ tpl' = [l.t EXCEPT !.g = tpl.g]
          /\ loc' = [loc EXCEPT ![p].nPrepares = @ + 1, ![p].template = found]
          /\ req' = [req EXCEPT ![p] = Request(Caller1, Prompt1, Defaults, TRUE)]
          /\ pc' = [pc EXCEPT ![p] = "sr_check"]
  /\ UNCHANGED <<cache, log, produced, now, started, prev, syn, db, pure>>

\* preparePrompt('graph_validation', ...) inside validateGraph
PreparePrompt(p) ==
  /\ pc[p] = "prep"
  /\ \E fault \in Faults \ {"file"} :
       LET l == LoadTemplates(tpl, 1, fault # "get", fault # "set")
           found == IF l.ok THEN MapGet(l.t.svc[1].templates, "graph_validation") ELSE Null
       IN /\ tpl' = [l.t EXCEPT !.g = tpl.g]
          /\ IF found = Null
             THEN /\ loc' = [loc EXCEPT ![p].nPrepares = @ + 1,
                                        ![p].failStage =
                                          IF l.ok THEN "no_template" ELSE "template_load"]
                  /\ req' = req
                  /\ pc' = [pc EXCEPT ![p] = "failed"]
             ELSE /\ loc' = [loc EXCEPT ![p].nPrepares = @ + 1, ![p].template = found]
                  /\ req' = [req EXCEPT ![p] = Request(Caller1, Prompt1, Defaults, TRUE)]
                  /\ pc' = [pc EXCEPT ![p] = "sr_check"]
  /\ UNCHANGED <<cache, log, produced, now, started, prev, syn, db, pure>>

\* the parsing step of validateGraph on the response of sendRequest
ParseValidation(p) ==
  /\ pc[p] = "val_parse"
  /\ IF ValidationResultOf(loc[p].result.response).ok
     THEN /\ pc' = [pc EXCEPT ![p] = "done"]
          /\ loc' = loc
     ELSE Fail(p, "parse")
  /\ UNCHANGED <<req, syn, cache, log, db, produced, now, started, prev, tpl, pure>>

(***************************************************************************)
(* The data generateTheses and synthesizeConcepts hand to preparePrompt.   *)
(* A graph is one category and one connection, each with its list of       *)
(* attribute values (in tenths); an attribute written into the text is     *)
(* the token <<"attr", value, "d">>.                                       *)
(***************************************************************************)
\* faulty variant: the attributes are written whatever the flag says
ContextOfAlways(op, graph, useWeights) ==
  LET attrs(e) == [i \in 1..Len(e.attributes) |-> <<"attr", e.attributes[i], "d">>]
  IN [categories |-> StringValue(<<Lit(graph.category.name, "d")>> \o attrs(graph.category)),
      connections |-> StringValue(<<Lit(graph.connection.type, "d")>> \o attrs(graph.connection)),
      use_weights |-> StringValue(<<Lit(IF useWeights THEN "true" ELSE "false", "d")>>)]

\* generateTheses: categoriesData and connectionsData, a line per entity with
\* " [Harakteristiki: ...]" only under useWeights and with attributes.
\* synthesizeConcepts: the JSON of conceptsData, with the attributes of the
\* entity under use_weights and [] otherwise.
ContextOf(op, graph, useWeights) ==
  LET attrs(e) == [i \in 1..Len(e.attributes) |-> <<"attr", e.attributes[i], "d">>]
      shown(e) == IF op = "thesis_generation"
                  THEN IF useWeights /\ Len(e.attributes) > 0
                       THEN <<Lit("[", "d")>> \o attrs(e) \o <<Lit("]", "d")>> ELSE << >>
                  ELSE <<Lit("[", "d")>> \o (IF useWeights THEN attrs(e) ELSE << >>)
                       \o <<Lit("]", "d")>>
  IN [categories |-> StringValue(<<Lit(graph.category.name, "d")>> \o shown(graph.category)),
      connections |-> StringValue(<<Lit(graph.connection.type, "d")>> \o shown(graph.connection)),
      use_weights |-> StringValue(<<Lit(IF useWeights THEN "true" ELSE "false", "d")>>)]

\* the prompt of the operation is prepared for each of two graphs
BuildPrompts ==
  /\ pure.kind = "context" /\ ~pure.done
  /\ LET template == Some([template |-> << Lit("T", "t"), Ph("categories", "t"),
                                           Ph("connections", "t"), Ph("use_weights", "t") >>,
                           parameters |-> <<"categories", "connections", "use_weights">>])
     IN pure' = [pure EXCEPT
          !.done = TRUE,
          !.out = PreparePromptOf(template, ContextOf(pure.op, pure.graph, pure.useWeights)).prompt,
          !.out2 = PreparePromptOf(template, ContextOf(pure.op, pure.graph2, pure.useWeights)).prompt]
  /\ UNCHANGED <<pc, req, loc, syn, cache, log, db, produced, now, started, prev, tpl>>

NoPure == [kind |-> "", done |-> FALSE]

InitCommon ==
  /\ req = [p \in Procs |-> NoRequest]
  /\ loc = [p \in Procs |-> FreshLoc("", 0)]
  /\ syn = [p \in Procs |-> FreshSyn]
  /\ db = EmptyDb
  /\ cache = << >>
  /\ log = << >>
  /\ produced = {}
  /\ now = 0
  /\ started = 0
  /\ prev = NoPrev

\* one caller at a time
Init ==
  /\ pc = [p \in Procs |-> IF p = 1 THEN "idle" ELSE "off"]
  /\ InitCommon
  /\ tpl = Store(AllFilesOk)
  /\ pure = NoPure

\* two callers that may overlap
InitConc ==
  /\ pc = [p \in Procs |-> "idle"]
  /\ InitCommon
  /\ tpl = Store(AllFilesOk)
  /\ pure = NoPure

\* sendRequest called directly, one call after the other, as time passes
Next ==
  \/ \E p \in Procs : StartComplete(p)
  \/ \E p \in Procs : CheckCache(p)
  \/ \E p \in Procs : CallModel(p)
  \/ \E p \in Procs : CacheResponse(p)
  \/ \E p \in Procs : LogInteraction(p)
  \/ \E p \in Procs : Finish(p)
  \/ Tick

Spec == Init /\ [][Next]_vars

\* the operations of SynthesisService, one after the other
NextSyn ==
  \/ \E p \in Procs : StartSynthesize(p)
  \/ \E p \in Procs : StartAnalyze(p)
  \/ \E p \in Procs : LoadConcepts(p)
  \/ \E p \in Procs : CheckCache(p)
  \/ \E p \in Procs : CallModel(p)
  \/ \E p \in Procs : CacheResponse(p)
  \/ \E p \in Procs : LogInteraction(p)
  \/ \E p \in Procs : ParseCompatibility(p)
  \/ \E p \in Procs : ParseDraft(p)
  \/ \E p \in Procs : CreateConcept(p)
  \/ \E p \in Procs : CreateCategory(p)
  \/ \E p \in Procs : CreateConnection(p)
  \/ \E p \in Procs : CreateSynthesisMeta(p)
  \/ \E p \in Procs : ReadNewGraph(p)
  \/ \E p \in Procs : Finish(p)

SpecSyn == Init /\ [][NextSyn]_vars

\* the race of concurrent sendRequest calls, at one instant
NextConc ==
  \/ \E p \in Procs : StartComplete(p)
  \/ \E p \in Procs : CheckCache(p)
  \/ \E p \in Procs : CallModel(p)
  \/ \E p \in Procs : CacheResponse(p)
  \/ \E p \in Procs : LogInteraction(p)
  \/ \E p \in Procs : Finish(p)

SpecConc == InitConc /\ [][NextConc]_vars

InitTpl ==
  /\ pc = [p \in Procs |-> "off"]
  /\ InitCommon
  /\ \E files \in { AllFilesOk,
                     [AllFilesOk EXCEPT !["concept_synthesis"] = NoFile],
                     [AllFilesOk EXCEPT !["concept_synthesis"] = File("malformed", "")] } :
       tpl = Store(files)
  /\ pure = NoPure

\* the operations of two PromptTemplateService instances on one store
NextTpl ==
  \/ \E i \in Services, n \in TemplateNames : GetTemplate(i, n)
  \/ \E i \in Services, n \in TemplateNames, v \in TemplateValues : UpdateTemplate(i, n, v)
  \/ \E i \in Services, n \in TemplateNames, v \in TemplateValues : CreateTemplate(i, n, v)
  \/ \E i \in Services, n \in TemplateNames : DeleteTemplate(i, n)
  \/ ExpireTemplates

SpecTpl == InitTpl /\ [][NextTpl]_vars

InitRender ==
  /\ pc = [p \in Procs |-> "off"]
  /\ InitCommon
  /\ tpl = Store(AllFilesOk)
  /\ LET texts == { << Ph("a", "t") >>,
                     << Lit("x", "t"), Ph("a", "t"), Lit("y", "t"), Ph("b", "t"), Ph("a", "t") >>,
                     << Ph("b", "t"), Lit("x", "t"), Ph("a", "t") >> }
         values == { StringValue(<< Lit("V", "d") >>),
                     StringValue(<< >>),
                     StringValue(<< Amp >>),
                     StringValue(<< Dollars >>),
                     StringValue(<< Ph("a", "d") >>),
                     StringValue(<< Ph("b", "d") >>),
                     [type |-> "object", text |-> << Lit("V", "d") >>] }
         \* the data argument: a value for some of the names
         contexts == UNION { [names -> values] : names \in SUBSET ParamNames }
     IN \E text \in texts, parameters \in ParameterLists, data \in contexts :
       pure = [kind |-> "render", template |-> text, parameters |-> parameters,
               data |-> data, done |-> FALSE, ok |-> FALSE, out |-> << >>,
               redone |-> FALSE, reordered |-> << >>, out2 |-> << >>]

NextRender ==
  \/ RenderPrompt
  \/ RenderReordered

\* preparePrompt as a function of the template and the context
SpecRender == InitRender /\ [][NextRender]_vars

\* validateGraph called one call after the other while its template is deleted
NextOp ==
  \/ \E p \in Procs : StartValidate(p)
  \/ \E p \in Procs : PreparePrompt(p)
  \/ \E p \in Procs : CheckCache(p)
  \/ \E p \in Procs : CallModel(p)
  \/ \E p \in Procs : CacheResponse(p)
  \/ \E p \in Procs : LogInteraction(p)
  \/ \E p \in Procs : ParseValidation(p)
  \/ \E p \in Procs : Finish(p)
  \/ \E i \in Services : DeleteTemplate(i, "graph_validation")

SpecOp == Init /\ [][NextOp]_vars

InitContext ==
  /\ pc = [p \in Procs |-> "off"]
  /\ InitCommon
  /\ tpl = Store(AllFilesOk)
  /\ LET lists == { << >>, <<0>>, <<5>>, <<5, 10>> }
         graphs == { [category |-> [name |-> "Being", attributes |-> a],
                      connection |-> [type |-> "causal", attributes |-> b]] :
                     a \in lists, b \in lists }
     IN \E op \in {"thesis_generation", "concept_synthesis"}, useWeights \in BOOLEAN,
           g1 \in graphs, g2 \in graphs :
          pure = [kind |-> "context", op |-> op, useWeights |-> useWeights,
                  graph |-> g1, graph2 |-> g2, done |-> FALSE, out |-> << >>, out2 |-> << >>]

\* the prompts of generateTheses and synthesizeConcepts as functions of the
\* graph and the weighting flag
SpecContext == InitContext /\ [][BuildPrompts]_vars

(***************************************************************************)
(* Attribute values of categories and connections.  CategoryService        *)
(* (thesis-service.ts) and ConnectionService (react-components.ts) have    *)
(* the same add and update operations over the tables category_attributes  *)
(* and connection_attributes.  Values are written in tenths.               *)
(***************************************************************************)
\* the 'value' of a request body (AttributeCreateDTO, AttributeUpdateDTO):
\* a number, NaN, or no value at all
AttributeValues ==
  { [t |-> "num", v |-> v] : v \in {-1, 0, 5, 10, 11} }
    \cup { [t |-> "nan", v |-> 0], [t |-> "absent", v |-> 0] }

\* validateAttributeValue: throws if (value < 0 || value > 1); both
\* comparisons are false for NaN and for undefined.  TRUE: no throw.
validateAttributeValue(value) ==
  ~(value.t = "num" /\ (value.v < 0 \/ value.v > 10))

\* faulty variant: the column takes every number
check_value_range_off(value) == value.t = "num"

\* the column: value FLOAT NOT NULL with
\* CONSTRAINT check_value_range CHECK (value >= 0 AND value <= 1);
\* NaN sorts above every number, so NaN <= 1 is false
check_value_range(value) ==
  value.t = "num" /\ value.v >= 0 /\ value.v <= 10

\* addCategoryAttribute / addConnectionAttribute: the owner exists, the type
\* is valid, validateAttributeValue, then createCategoryAttribute /
\* createConnectionAttribute, which updates the attribute of that type or
\* inserts it, and rolls back when the statement fails
AddAttribute(table, value) ==
  LET ok == validateAttributeValue(value) /\ check_value_range(value)
  IN pure' = [pure EXCEPT !.store = IF ok THEN [@ EXCEPT ![table] = Some(value.v)] ELSE @,
                          !.made = TRUE, !.op = "add", !.table = table,
                          !.impl = "public", !.value = value,
                          !.failed = ~ok, !.before = pure.store]

\* updateCategoryAttribute / updateConnectionAttribute.  Each class defines
\* the name twice; impl is the definition the name is bound to.
\*   "public":  the attribute exists, validateAttributeValue if a value is
\*              given, then dbService.updateCategoryAttribute (not defined by
\*              DatabaseService) or this.updateConnectionAttribute (the
\*              method itself): no statement is reached
\*   "private": UPDATE ... SET the given fields WHERE attribute_id = ...;
\*              'No fields to update' with neither field, ROLLBACK when the
\*              statement fails, 'not found' when no row matched
UpdateAttribute(table, impl, value, justification) ==
  LET exists == pure.store[table] # Null
      fields == value.t # "absent" \/ justification
      accepted == value.t = "absent" \/ check_value_range(value)
      ok == IF impl = "public"
            THEN exists /\ validateAttributeValue(value) /\ FALSE
            ELSE fields /\ accepted /\ exists
  IN pure' = [pure EXCEPT !.store = IF ok /\ value.t # "absent"
                                    THEN [@ EXCEPT ![table] = Some(value.v)] ELSE @,
                          !.made = TRUE, !.op = "update", !.table = table,
                          !.impl = impl, !.value = value,
                          !.failed = ~ok, !.before = pure.store]

InitAttr ==
  /\ pc = [p \in Procs |-> "off"]
  /\ InitCommon
  /\ tpl = Store(AllFilesOk)
  /\ pure = [kind |-> "attr", done |-> FALSE,
             store |-> [t \in {"category", "connection"} |-> Null],
             made |-> FALSE, op |-> "", table |-> "", impl |-> "",
             value |-> [t |-> "absent", v |-> 0], failed |-> FALSE,
             before |-> [t \in {"category", "connection"} |-> Null]]

NextAttr ==
  \/ \E table \in {"category", "connection"}, value \in AttributeValues :
       AddAttribute(table, value) /\ UNCHANGED <<pc, req, loc, syn, cache, log, db, produced, now, started, prev, tpl>>
  \/ \E table \in {"category", "connection"}, impl \in {"public", "private"},
        value \in AttributeValues, justification \in BOOLEAN :
       UpdateAttribute(table, impl, value, justification) /\ UNCHANGED <<pc, req, loc, syn, cache, log, db, produced, now, started, prev, tpl>>

\* any sequence of add and update calls on the two attribute tables
SpecAttr == InitAttr /\ [][NextAttr]_vars

InitParse ==
  /\ pc = [p \in Procs |-> "off"]
  /\ InitCommon
  /\ tpl = Store(AllFilesOk)
  /\ \E op \in OperationKinds, text \in ResponseTexts :
       pure = [kind |-> "parse", op |-> op, text |-> text, done |-> FALSE, out |-> Raised]

\* the parsing steps as functions of the response text
SpecParse == InitParse /\ [][ParseResponse]_vars

(***************************************************************************)
(* Properties.                                                             *)
(***************************************************************************)
KeyOf(r) == CacheKey(generatePromptHash(r.prompt))

SameTriple(a, b) ==
  /\ a.prompt = b.prompt
  /\ a.maxTokens = b.maxTokens
  /\ a.temperature = b.temperature

\* the direct sendRequest call of p has returned to its caller
Returned(p) == pc[p] = "done" /\ loc[p].op = "complete"

\* the previous call and the returned call of p are a pair of calls with
\* caching enabled, the cache backend answering both, the previous one
\* successful and its cache entry not yet expired now
CachedPair(p) ==
  /\ Returned(p)
  /\ prev.ok /\ prev.useCaching /\ req[p].useCaching
  /\ prev.hit \/ prev.nCacheWrites = 1
  /\ ~loc[p].readRaised
  /\ now < prev.entryExp

\* C1: of two sequential sendRequest calls with caching enabled, the cache
\* backend available and the same (prompt, maxTokens, temperature), the first
\* successful and the second inside the TTL of the entry, the second returns
\* the response and tokensUsed of the first, makes no model call and appends
\* no interaction row; when the first was a miss whose row was written, the
\* pair has appended exactly one row.
C1_CacheHitRepeats ==
  \A p \in Procs :
    (CachedPair(p) /\ SameTriple(prev, req[p])) =>
      /\ loc[p].hit
      /\ loc[p].result = prev.result
      /\ loc[p].nCalls = 0
      /\ loc[p].nLogs = 0
      /\ (~prev.hit /\ prev.nLogs = 1) => (prev.nLogs + loc[p].nLogs = 1 /\ Len(log) >= 1)

\* a second call served from the entry the first call wrote half an hour ago
C1_Witness ==
  \E p \in Procs :
    /\ CachedPair(p) /\ SameTriple(prev, req[p])
    /\ ~prev.hit /\ prev.nLogs = 1
    /\ loc[p].hit
    /\ now = TickSeconds
    /\ prev.result.tokensUsed = 3

\* C2: a call is served from the cache only by an entry that a call with the
\* same prompt and the same maxTokens and the same temperature wrote; a call
\* that follows one with the same prompt and another maxTokens or temperature
\* makes its own model call.
C2_KeyIsWholeTriple ==
  \A p \in Procs :
    (Returned(p) /\ prev.ok /\ ~prev.hit /\ prev.nCacheWrites = 1
       /\ prev.prompt = req[p].prompt /\ ~SameTriple(prev, req[p])) =>
      /\ ~loc[p].hit
      /\ loc[p].nCalls = 1

\* the results a successful model call can yield for the request of p:
\* the content and the sum of the input and output tokens
SumResults(p) ==
  { [response |-> r.content, tokensUsed |-> r.input_tokens + r.output_tokens] :
      r \in ApiResponses(req[p].prompt.tpl) }

\* the cache holds, under the key of p's request, p's result for one hour from now
EntryOfResult(p) ==
  /\ KeyOf(req[p]) \in DOMAIN cache
  /\ cache[KeyOf(req[p])] =
       [val |-> <<"json", loc[p].result.response, loc[p].result.tokensUsed>>,
        exp |-> now + 3600]

\* the steps of a miss in their order: the model call, the cache write, the row
MissInOrder(p) ==
  /\ pc[p] = "sr_cache" =>
       loc[p].nCalls = 1 /\ loc[p].nCacheWrites = 0 /\ loc[p].nLogs = 0
  /\ pc[p] = "sr_log" =>
       /\ loc[p].nCalls = 1 /\ loc[p].nLogs = 0
       /\ (req[p].useCaching /\ ~loc[p].writeRaised) => EntryOfResult(p)

\* a miss with caching enabled whose cache write and row write did not raise
CleanMiss(p) ==
  /\ Returned(p) /\ ~loc[p].hit
  /\ req[p].useCaching /\ ~loc[p].writeRaised /\ ~loc[p].logRaised

C6_CacheFailureTolerated ==
  \A p \in Procs :
    (loc[p].op = "complete") =>
      /\ loc[p].readRaised =>
           /\ ~loc[p].hit
           /\ pc[p] \in {"sr_call", "sr_cache", "sr_log", "done", "failed"}
           /\ pc[p] \in {"sr_cache", "sr_log", "done", "failed"} => loc[p].nCalls = 1
      /\ loc[p].writeRaised =>
           /\ pc[p] \in {"sr_log", "done"}
           /\ loc[p].result \in SumResults(p)
           /\ (pc[p] = "done" /\ ~loc[p].logRaised) =>
                /\ loc[p].nLogs = 1
                /\ log[Len(log)].prompt = req[p].prompt
                /\ log[Len(log)].user_id = req[p].userId
      /\ loc[p].result # NoResult => pc[p] # "failed"

\* a call that returned although the cache read and the cache write raised
C6_Witness ==
  \E p \in Procs :
    /\ Returned(p)
    /\ loc[p].readRaised /\ loc[p].writeRaised
    /\ loc[p].nLogs = 1

\* C7: when the write of the interaction row raises after a successful
\* model call, the call still returns the result of the model, and the cache
\* entry written for the call stays.
C7_LogFailureTolerated ==
  \A p \in Procs :
    (loc[p].op = "complete" /\ loc[p].logRaised) =>
      /\ pc[p] = "done"
      /\ loc[p].nLogs = 0
      /\ loc[p].result \in SumResults(p)
      /\ <<KeyOf(req[p]), loc[p].result>> \in produced
      /\ loc[p].nCacheWrites = 1 => EntryOfResult(p)

\* a call that returned with its entry cached although the row write raised
C7_Witness ==
  \E p \in Procs :
    /\ Returned(p)
    /\ loc[p].logRaised /\ loc[p].nCacheWrites = 1
    /\ loc[p].result.tokensUsed = 3

\* C5: under every interleaving of sendRequest calls on one key, the entry
\* of the key is absent or the pair of one completed model call, every miss
\* makes a model call, and every caller returns a pair a model call produced.
C5_EntriesAreWholeResults ==
  /\ \A k \in DOMAIN cache :
       \E pr \in produced :
         /\ pr[1] = k
         /\ cache[k].val = <<"json", pr[2].response, pr[2].tokensUsed>>
  /\ \A p \in Procs :
       /\ (pc[p] \in {"sr_cache", "sr_log", "failed"} \/ (pc[p] = "done" /\ ~loc[p].hit))
            => loc[p].nCalls = 1
       /\ pc[p] = "done" => <<KeyOf(req[p]), loc[p].result>> \in produced

\* two overlapping calls on one key that both missed and got different
\* answers, one of which is the entry
C5_Witness ==
  /\ pc[1] = "done" /\ pc[2] = "done"
  /\ KeyOf(req[1]) = KeyOf(req[2])
  /\ ~loc[1].hit /\ ~loc[2].hit
  /\ loc[1].result # loc[2].result
  /\ loc[1].nCacheWrites = 1 /\ loc[2].nCacheWrites = 1
  /\ cache[KeyOf(req[1])].val = <<"json", loc[1].result.response, loc[1].result.tokensUsed>>

\* C8: when synthesizeConcepts fails at any step, no row created by the
\* invocation remains.
C8_AllOrNothing ==
  \A p \in Procs :
    (loc[p].op = "synthesize" /\ pc[p] = "failed") => RowsBy(loc[p].inv) = {}

\* C9: every stored connection of a new concept joins two stored categories
\* of that concept, and a draft connection with an unresolved endpoint is
\* left out without failing the operation.
C9_UnresolvedConnectionsSkipped ==
  /\ \A c \in db.connections :
       /\ \E a \in db.categories :
            a.id = c.source_category_id /\ a.concept_id = c.concept_id
       /\ \E b \in db.categories :
            b.id = c.target_category_id /\ b.concept_id = c.concept_id
  /\ \A p \in Procs :
       (/\ loc[p].op = "synthesize" /\ loc[p].result # NoResult
        /\ LET cats == ExtractCategories(loc[p].result.response)
               conns == ExtractConnections(loc[p].result.response)
           IN \E i \in 1..Len(conns) :
                \/ \A j \in 1..Len(cats) : cats[j].name # conns[i].source_category
                \/ \A j \in 1..Len(cats) : cats[j].name # conns[i].target_category)
         => ~(pc[p] = "failed" /\ loc[p].failStage = "parse")

\* C10: analyzeSynthesisCompatibility and synthesizeConcepts called with
\* fewer than two concept ids fail, having read no concept or graph, made no
\* model call, appended no row and stored nothing.
C10_TwoConceptsRequired ==
  \A p \in Procs :
    (loc[p].op \in {"synthesize", "analyze"} /\ Len(syn[p].ids) < 2) =>
      /\ pc[p] = "failed"
      /\ syn[p].reads = 0
      /\ loc[p].nCalls = 0
      /\ loc[p].nLogs = 0
      /\ loc[p].nCacheWrites = 0
      /\ RowsBy(loc[p].inv) = {}

\* a compatibility analysis of a single concept that has failed, after an
\* earlier operation had logged its model call
C10_Witness ==
  \E p \in Procs :
    /\ loc[p].op = "analyze" /\ Len(syn[p].ids) = 1
    /\ pc[p] = "failed"
    /\ Len(log) = 1

\* C11: once a createTemplate / updateTemplate / deleteTemplate of a name has
\* returned true, every later getTemplate of that name, through whichever
\* instance, returns the written template (null after a delete), unless its
\* lazy load raises.
C11_NoStaleTemplate ==
  (tpl.g.made /\ tpl.g.name \in DOMAIN tpl.expected /\ ~tpl.g.raised) =>
    tpl.g.res = tpl.expected[tpl.g.name]

\* C12: a writing operation that returns false leaves the file, the map of
\* its instance and the shared entry as they were, and one that returns true
\* has changed all three.
C12_WritesAtomic ==
  (tpl.w.made /\ ~tpl.w.raised) =>
    IF tpl.w.ok
    THEN IF tpl.w.op = "delete"
         THEN tpl.w.post = [file |-> NoFile, memory |-> Null, shared |-> <<"lacks">>]
         ELSE tpl.w.post = [file |-> File("ok", tpl.w.val), memory |-> Some(tpl.w.val),
                            shared |-> <<"has", tpl.w.val>>]
    ELSE tpl.w.post = tpl.w.pre

\* C13: a getTemplate whose lazy load read the files and met a missing or
\* malformed file of another template returns the template of its own name.
C13_LoadFailureIsolated ==
  (tpl.g.made /\ tpl.g.src = "files" /\ tpl.g.badOther /\ tpl.g.fileOk) =>
    /\ ~tpl.g.raised
    /\ tpl.g.res = Some(tpl.files[tpl.g.name].body)

Declared(n) == \E i \in 1..Len(pure.parameters) : pure.parameters[i] = n

\* the placeholders of declared parameter n that the template text brought
\* into the prompt
TemplatePlaceholders(prompt, n) ==
  {i \in 1..Len(prompt) : IsPlaceholder(prompt[i], n) /\ prompt[i][3] = "t"}

\* C15: when the context has a value for every declared parameter, the
\* returned prompt holds no placeholder of a declared parameter (other than
\* text a value itself brought).
C15_NoPlaceholderLeft ==
  (pure.done /\ \A n \in ParamNames : Declared(n) => n \in DOMAIN pure.data) =>
    \A n \in ParamNames : Declared(n) => TemplatePlaceholders(pure.out, n) = {}

C17_OrderIndependent ==
  pure.redone =>
    /\ Len(pure.out2) = Len(pure.out)
    /\ \A i \in 1..Len(pure.out) :
         pure.out2[i][1] = pure.out[i][1] /\ pure.out2[i][2] = pure.out[i][2]

\* C18: for every operation kind and every response text the parsing step
\* returns a result.
C18_ParsersTotal ==
  pure.done => pure.out.ok

\* C19: for every operation kind, a response that is empty or holds no
\* marker (plain lines only) yields a result with empty lists and the response text in its
\* primary free-text field.
C19_RawTextPreserved ==
  (pure.done /\ \A i \in 1..Len(pure.text) : pure.text[i].k = "text") =>
    /\ pure.out.ok
    /\ \A i \in 1..Len(pure.out.collections) : pure.out.collections[i] = << >>
    /\ pure.out.free = Some(pure.text)

\* C20: when the response has zero, one, two or three numbered markers,
\* validateGraph returns the whole response as general_analysis and three
\* empty lists.
C20_ValidationFallback ==
  (pure.done /\ pure.op = "graph_validation" /\ Cardinality(NumMarkers(pure.text)) < 4) =>
    /\ pure.out.ok
    /\ pure.out.free = Some(pure.text)
    /\ pure.out.collections = << << >>, << >>, << >> >>

\* C14: when the template 'graph_validation' is absent, validateGraph fails
\* at the prompt-build step, which is taken once: the model is not called,
\* the cache is neither read nor written and no interaction is logged.
C14_MissingTemplateFailsEarly ==
  \A p \in Procs :
    (loc[p].op = "validate" /\ loc[p].nPrepares >= 1 /\ loc[p].template = Null) =>
      /\ pc[p] = "failed"
      /\ loc[p].nPrepares = 1
      /\ loc[p].nCalls = 0
      /\ loc[p].nCacheReads = 0
      /\ loc[p].nCacheWrites = 0
      /\ loc[p].nLogs = 0

C14_Witness ==
  \E p \in Procs :
    /\ loc[p].op = "validate" /\ pc[p] = "failed" /\ loc[p].failStage = "no_template"
    /\ tpl.w.made /\ tpl.w.ok /\ tpl.w.op = "delete" /\ tpl.w.name = "graph_validation"

\* C21: for a response with four numbered sections, the contradictions and
\* the missing elements are the bullets of sections 2 and 3, one issue per
\* bullet in order, with the severity the keywords of the bullet give.
C21_IssuePerBullet ==
  (pure.done /\ pure.op = "graph_validation" /\ Cardinality(NumMarkers(pure.text)) = 4) =>
    /\ pure.out.ok
    /\ \A j \in {2, 3} :
         LET M == NumMarkers(pure.text)
             a == CHOOSE i \in M : Cardinality({x \in M : x < i}) = j - 1
             b == CHOOSE i \in M : Cardinality({x \in M : x < i}) = j
             bullets == SelectSeq(SubSeq(pure.text, a + 1, b - 1), LAMBDA l : l.k = "item")
             issues == pure.out.collections[j - 1]
         IN /\ Len(issues) = Len(bullets)
            /\ \A i \in 1..Len(bullets) :
                 /\ issues[i].description[1] = bullets[i]
                 /\ issues[i].severity =
                      IF bullets[i].body \in {"critical issue: Y", "minor but critical"}
                      THEN "high"
                      ELSE IF bullets[i].body = "minor issue: X" THEN "low" ELSE "medium"

\* C22: generateTheses returns one thesis per numbered entry, and every ID
\* in its derived_from.categories is the category_id of a category of the
\* graph whose name equals, case apart, a name on the source line of that
\* entry; a name that matches no category gives no ID and no error.
C22_SourcesResolveByName ==
  (pure.done /\ pure.op = "thesis_generation") =>
    LET theses == pure.out.collections[1]
        at == SelectSeq([i \in 1..Len(pure.text) |-> i], LAMBDA i : pure.text[i].k = "num")
    IN /\ pure.out.ok
       /\ Len(theses) = Len(at)
       /\ \A j \in 1..Len(at) :
            LET listed == IF at[j] < Len(pure.text) /\ pure.text[at[j] + 1].k = "source"
                          THEN {pure.text[at[j] + 1].name, pure.text[at[j] + 1].tgt} \ {""}
                          ELSE {}
            IN /\ theses[j].text = pure.text[at[j]].body
               /\ \A k \in 1..Len(theses[j].categories) :
                    \E c \in 1..Len(GraphCategories), n \in listed :
                      /\ GraphCategories[c].category_id = theses[j].categories[k]
                      /\ ToLowerCase(GraphCategories[c].name) = ToLowerCase(n)
               /\ Len(theses[j].categories) <= Cardinality(listed)

\* a thesis whose source line names one category in another case and one
\* name that no category has
C22_Witness ==
  /\ pure.done /\ pure.op = "thesis_generation"
  /\ Len(pure.text) = 2 /\ pure.text[2].name = "BEING" /\ pure.text[2].tgt = "Ghost"
  /\ Len(pure.out.collections[1]) = 1
  /\ pure.out.collections[1][1].categories = <<"c1">>

\* C23: for a synthesis response whose categories section has the
\* sub-headings N1..Nk and whose connections section has a bullet
\* "S -> T (type)" with S and T among them, synthesizeConcepts returns one
\* category per sub-heading with the temporary identifier of its place and
\* the connection with the identifiers of S and T.
C23_DraftNamesResolve ==
  (pure.done /\ pure.op = "concept_synthesis") =>
    LET t == pure.text
        h2s == {i \in 1..Len(t) : t[i].k = "h2"}
        sub(name) == {i \in 1..Len(t) :
                        \E a \in h2s : /\ t[a].name = name /\ a < i
                                       /\ \A b \in h2s : ~(a < b /\ b < i)}
        heads == SelectSeq([i \in 1..Len(t) |-> i],
                           LAMBDA i : i \in sub("Kategorii") /\ t[i].k = "h3")
        bullets == SelectSeq([i \in 1..Len(t) |-> i],
                             LAMBDA i : i \in sub("Svyazi") /\ t[i].k = "bullet")
        place(n) == CHOOSE j \in 1..Len(heads) : t[heads[j]].name = n
    IN (/\ Len(heads) > 0 /\ Len(bullets) > 0
        /\ \A b \in 1..Len(bullets) : \E j \in 1..Len(heads) :
             t[bullets[b]].name = t[heads[j]].name
        /\ \A b \in 1..Len(bullets) : \E j \in 1..Len(heads) :
             t[bullets[b]].tgt = t[heads[j]].name) =>
         /\ pure.out.ok
         /\ Len(pure.out.collections[1]) = Len(heads)
         /\ \A j \in 1..Len(heads) :
              /\ pure.out.collections[1][j].name = t[heads[j]].name
              /\ pure.out.collections[1][j].category_id = TempCategoryId(j - 1)
         /\ Len(pure.out.collections[2]) = Len(bullets)
         /\ \A b \in 1..Len(bullets) :
              /\ pure.out.collections[2][b].source_category_id =
                   TempCategoryId(place(t[bullets[b]].name) - 1)
              /\ pure.out.collections[2][b].target_category_id =
                   TempCategoryId(place(t[bullets[b]].tgt) - 1)

\* C24: for each of the three section headings present in the response the
\* list of the result holds one element per "###" sub-heading of that
\* section, in order and named by it; the strategies list holds one strategy
\* per sub-heading of the strategies section.
C24_ElementPerSubHeading ==
  (pure.done /\ pure.op = "compatibility_analysis") =>
    LET t == pure.text
        h2s == {i \in 1..Len(t) : t[i].k = "h2"}
        heads(name) ==
          SelectSeq([i \in 1..Len(t) |-> i],
                    LAMBDA i : /\ t[i].k = "h3"
                               /\ \E a \in h2s : /\ t[a].name = name /\ a < i
                                                 /\ \A b \in h2s : ~(a < b /\ b < i))
        sections == << "Polnostyu sovmestimye elementy", "Potentsialno sovmestimye elementy",
                       "Printsipialno nesovmestimye elementy", "Vozmozhnye strategii sinteza" >>
    IN /\ pure.out.ok
       /\ \A k \in 1..4 :
            /\ Len(pure.out.collections[k]) = Len(heads(sections[k]))
            /\ \A j \in 1..Len(heads(sections[k])) :
                 IF k < 4
                 THEN pure.out.collections[k][j].name = t[heads(sections[k])[j]].name
                 ELSE pure.out.collections[k][j].strategy_name = t[heads(sections[k])[j]].name

\* C25: a strategy sub-section whose text after the recommended label is,
\* case apart, the affirmative word gives a strategy with recommended = true
\* in the result; any other strategy sub-section gives one with
\* recommended = false.
C25_RecommendedFlag ==
  (pure.done /\ pure.op = "compatibility_analysis") =>
    \A i \in 1..Len(pure.text) :
      LET t == pure.text
          inStrategies ==
            \E a \in 1..(i - 1) : /\ t[a].k = "h2" /\ t[a].name = "Vozmozhnye strategii sinteza"
                                  /\ \A b \in (a + 1)..(i - 1) : t[b].k # "h2"
          yes == /\ i < Len(t) /\ \E r \in (i + 1)..Len(t) :
                      /\ t[r].k = "rec" /\ t[r].body \in {"da", "Da", "DA"}
                      /\ \A b \in (i + 1)..(r - 1) : t[b].k \notin {"h2", "h3", "rec"}
                      /\ (r = Len(t) \/ t[r + 1].k \in {"h2", "h3"})
      IN (t[i].k = "h3" /\ inStrategies) =>
           \E j \in 1..Len(pure.out.collections[4]) :
             /\ pure.out.collections[4][j].strategy_name = t[i].name
             /\ pure.out.collections[4][j].recommended = yes

\* C26: the result of a synthesis holds, for every new category and every
\* new connection of the response whose origin note names a source concept,
\* an origin_mapping entry that links the entity to that source.
C26_OriginMapped ==
  (pure.done /\ pure.op = "concept_synthesis") =>
    \A i \in 1..Len(pure.text) :
      (/\ pure.text[i].k = "origin" /\ pure.text[i].body \in SourceConcepts
       /\ \E e \in 1..(i - 1) :
            /\ pure.text[e].k \in {"h3", "bullet"}
            /\ \A b \in (e + 1)..(i - 1) : pure.text[b].k = "text") =>
        /\ pure.out.ok
        /\ \E m \in 1..Len(pure.out.collections[3]) :
             pure.out.collections[3][m].source = pure.text[i].body

\* C27: with weighting disabled the prompt of generateTheses and of
\* synthesizeConcepts holds no attribute value, and two graphs that differ in
\* their attributes only give the same prompt, hence the same cache key.
C27_NoWeightsNoAttributes ==
  (pure.done /\ ~pure.useWeights) =>
    /\ \A i \in 1..Len(pure.out) : pure.out[i][1] # "attr"
    /\ pure.out2 = pure.out
    /\ CacheKey(generatePromptHash(pure.out2)) = CacheKey(generatePromptHash(pure.out))

\* two graphs with different attributes (one of them holding a zero), the
\* weighting disabled
C27_Witness ==
  /\ pure.done /\ ~pure.useWeights /\ pure.op = "concept_synthesis"
  /\ pure.graph.category.attributes = <<0>>
  /\ pure.graph2.category.attributes = <<5, 10>>
  /\ pure.graph.connection.attributes # pure.graph2.connection.attributes
  /\ pure.out2 = pure.out /\ Len(pure.out) > 1

\* C28: every stored attribute value lies in [0, 1], and a call whose value is
\* a number outside [0, 1] fails and leaves the stored values as they were
\* (nothing stored, nothing clamped)
C28_AttributeValuesInRange ==
  /\ \A t \in {"category", "connection"} :
       pure.store[t] # Null => pure.store[t][1] \in 0..10
  /\ (pure.made /\ pure.value.t = "num" /\ pure.value.v \notin 0..10)
       => (pure.failed /\ pure.store = pure.before)

\* an update to 1.1 through the statement-issuing definition was refused
\* while 0.5 stays stored
C28_Witness ==
  /\ pure.made /\ pure.op = "update" /\ pure.impl = "private"
  /\ pure.value = [t |-> "num", v |-> 11]
  /\ pure.failed
  /\ pure.store["category"] = <<5>>
  /\ pure.table = "category"


\* C29: when two PromptTemplateService instances each write a different
\* template with success, one write right after the other, the shared entry
\* 'prompt_templates' then holds the outcome of both writes
C29_SharedKeepsBothWrites ==
  [][ (/\ tpl.w.made /\ tpl.w.ok /\ tpl'.w.made /\ tpl'.w.ok
       /\ tpl'.ops = tpl.ops + 1
       /\ tpl'.w.by # tpl.w.by /\ tpl'.w.name # tpl.w.name
       /\ tpl.shared # Null)
      => /\ tpl'.shared # Null
         /\ \A w \in {tpl.w, tpl'.w} :
              IF w.op = "delete" THEN w.name \notin DOMAIN tpl'.shared[1]
              ELSE /\ w.name \in DOMAIN tpl'.shared[1]
                   /\ tpl'.shared[1][w.name] = w.val ]_vars


\* C30: the stages of synthesizeConcepts run forward.  An invocation has
\* stored no row of the result while it loads, calls the model or parses;
\* an invocation that failed at the guard, the load, the model call or the
\* parsing has stored none; the rows of one invocation were stored in the
\* order concept, categories, connections, synthesis meta (identifiers are
\* handed out in the order of the writes); and the rows present at a stage
\* are those of the stages before it.
C30_StagesRunForward ==
  \A p \in Procs :
    loc[p].op = "synthesize" =>
      LET inv == loc[p].inv
          cs == {r \in db.concepts : r.by = inv}
          as == {r \in db.categories : r.by = inv}
          ks == {r \in db.connections : r.by = inv}
          ms == {r \in db.metas : r.by = inv}
      IN /\ pc[p] \in {"load", "sr_check", "sr_call", "sr_cache", "sr_log",
                        "syn_parse", "syn_concept"} => RowsBy(inv) = {}
         /\ (pc[p] = "failed" /\ loc[p].failStage \in {"guard", "load", "model", "parse"})
              => RowsBy(inv) = {}
         /\ pc[p] = "syn_categories" => Cardinality(cs) = 1 /\ ks = {} /\ ms = {}
         /\ pc[p] = "syn_connections" => Cardinality(cs) = 1 /\ ms = {}
         /\ pc[p] = "syn_meta" => Cardinality(cs) = 1 /\ ms = {}
         /\ pc[p] \in {"syn_graph", "done"} => Cardinality(cs) = 1 /\ Cardinality(ms) = 1
         /\ Cardinality(cs) <= 1 /\ Cardinality(ms) <= 1
         /\ \A c \in cs, a \in as : c.id < a.id
         /\ \A a \in as \cup cs, k \in ks : a.id < k.id
         /\ \A r \in cs \cup as \cup ks, m \in ms : r.id < m.id

\* a synthesis whose parsing failed and stored nothing, after an earlier
\* synthesis had stored its concept and then its synthesis meta
C30_Witness ==
  \E p \in Procs :
    /\ loc[p].op = "synthesize" /\ pc[p] = "failed" /\ loc[p].failStage = "parse"
    /\ RowsBy(loc[p].inv) = {}
    /\ \E c \in db.concepts, m \in db.metas :
         c.by = m.by /\ c.by # loc[p].inv /\ c.id < m.id /\ m.concept_id = c.id

====
